---- MODULE Spec2Model ----
(***************************************************************************)
(* Model of the server-cloning pipeline of bot_cloner.py (class            *)
(* ServerCloner): clone_server_user_slash, clone_roles_user,               *)
(* clone_channels_user and the nested map_overwrites; and of the bulk      *)
(* deletion commands of bot_limpeza.py: apagar_canais_slash and            *)
(* apagar_cargos_slash.                                                    *)
(*                                                                         *)
(* Strings that the code parses (identifiers) are sequences of characters, *)
(* so that int() and str.isdigit() are computed, not assumed.  An absent   *)
(* JSON key / None is the empty sequence.  Handles of objects created on   *)
(* the destination guild are their 1-based index in guild_roles /          *)
(* guild_channels.  calls is the trace of remote calls, msgs the trace of  *)
(* messages sent to the invoking user.                                     *)
(***************************************************************************)
EXTENDS Integers, Sequences, FiniteSets, TLC

VARIABLES
    command,          \* the command that was issued
    pc,               \* position of the command handler
    guild_id,         \* interaction.guild.id: where the command is issued
    origem_id,        \* argument origem_id (string)
    destino_id,       \* argument destino_id (string)
    me_admin,         \* guild_destino.me.guild_permissions.administrator
    source_roles,     \* roles_data, the body read from the source
    source_channels,  \* the channels body read from the source
    roles_to_copy,    \* local of clone_roles_user
    role_mapping,     \* old role id (int) -> new role handle
    ri,               \* index of the role loop
    channels_data,    \* local of clone_channels_user (sorted in place)
    category_mapping, \* old category id (int) -> new category handle
    ci,               \* index of the current channel loop
    guild_roles,      \* roles of the destination guild created so far
    guild_channels,   \* categories/channels of the destination guild
    calls,            \* trace of remote calls
    msgs,             \* trace of messages to the user
    invocation,       \* the invocation whose handler the event loop runs
    suspended,        \* the handler state of the other invocation, if any
    me_top_role,      \* position of guild.me.top_role
    to_delete,        \* channels_to_delete / roles_to_delete
    di,               \* index of the deletion loop
    deleted_count,    \* local deleted_count
    printed,          \* trace of what is printed on the console
    token,            \* the environment's DISCORD_TOKEN (<<>>: not set)
    intents_enabled,  \* privileged intents are enabled in the portal
    stmt,             \* next module-level statement of bot_limpeza.py
    module_globals,   \* names bound in the module namespace
    tree_commands,    \* commands registered on bot.tree
    interactions,     \* the commands received so far, with their arguments
    nome,             \* argument nome (string)
    lista_cargos,     \* argument lista_cargos, as its separated pieces
    preset_file,      \* role_presets.json on disk
    role_data_list,   \* the roles to create (role_names / role_data_list)
    created_roles,    \* local created_roles
    failed_roles,     \* local failed_roles
    reorder_success,  \* local reorder_success
    li,               \* index of the creation loop
    pending_roles     \* created roles whose gateway event is not handled

vars == <<command, me_top_role, to_delete, di, deleted_count, printed,
          pc, guild_id, origem_id, destino_id, me_admin, source_roles,
          source_channels, roles_to_copy, role_mapping, ri, channels_data,
          category_mapping, ci, guild_roles, guild_channels, calls, msgs,
          invocation, suspended, token, intents_enabled, stmt,
          module_globals, tree_commands, interactions, nome, lista_cargos,
          preset_file, role_data_list, created_roles, failed_roles,
          reorder_success, li, pending_roles>>

----------------------------------------------------------------------------
(* Bounds *)

MaxRoles == 2
MaxChannels == 2
MaxGuildChannels == 2

\* pieces of a lista_cargos argument
MaxNames == 2

\* commands of a session
MaxCommands == 2

----------------------------------------------------------------------------
(* Python conversions used on identifiers *)

AsciiDigits == {"0", "1", "2", "3", "4", "5", "6", "7", "8", "9"}

\* characters c with c.isdigit(): the ASCII digits and e.g. SUPERSCRIPT TWO
UnicodeDigits == AsciiDigits \cup {"sup2"}

DigitVal(c) ==
    CASE c = "0" -> 0 [] c = "1" -> 1 [] c = "2" -> 2 [] c = "3" -> 3
      [] c = "4" -> 4 [] c = "5" -> 5 [] c = "6" -> 6 [] c = "7" -> 7
      [] c = "8" -> 8 [] c = "9" -> 9

\* str.isdigit(): non-empty and every character is a digit character
PyIsDigit(s) == Len(s) > 0 /\ \A i \in 1..Len(s) : s[i] \in UnicodeDigits

\* int(s) returns (does not raise ValueError)
PyIntOK(s) == Len(s) > 0 /\ \A i \in 1..Len(s) : s[i] \in AsciiDigits

RECURSIVE PyInt(_)
PyInt(s) ==
    IF Len(s) = 0 THEN 0
    ELSE 10 * PyInt(SubSeq(s, 1, Len(s) - 1)) + DigitVal(s[Len(s)])

\* dict.get(key, default) on an optional JSON field
GetOr(opt, default) == IF opt = <<>> THEN default ELSE opt[1]

\* truthiness of an optional string (None and "" are falsy)
Truthy(s) == s # <<>>

----------------------------------------------------------------------------
(* Input domains *)

SeqsUpTo(S, n) == UNION {[1..k -> S] : k \in 0..n}

DistinctIds(s) == \A i, j \in 1..Len(s) : i # j => s[i].id # s[j].id

OptPositions == {<<>>, <<1>>}

RoleIdStrs == {<<"1">>, <<"2">>, <<"x">>}

RoleNames == {"@everyone", "Mod"}

RoleRecords ==
    [id : RoleIdStrs, name : RoleNames, managed : BOOLEAN,
     position : OptPositions]

RoleLists == {s \in SeqsUpTo(RoleRecords, MaxRoles) : DistinctIds(s)}

SmallRoleLists ==
    {<<>>,
     <<[id |-> <<"1">>, name |-> "Mod", managed |-> FALSE,
        position |-> <<>>]>>}

\* an overwrite entry; type 0 is a role, 1 a member
Overwrite(type, id) ==
    [type |-> type, id |-> id, allow |-> <<"1">>, deny |-> <<"2">>]

\* a channel record of the source
Channel(id, type, position, parent_id, overwrites) ==
    [id |-> id, type |-> type, position |-> position,
     parent_id |-> parent_id, permission_overwrites |-> overwrites]

\* overwrites of a member, of a role with a non-numeric id and of a role
MixedOverwrites ==
    <<Overwrite(1, <<"1">>), Overwrite(0, <<"x">>), Overwrite(0, <<"1">>)>>

\* the overwrite of a member whose id is also the id of a role, with
\* permission values of its own
MemberOverwrites ==
    <<[type |-> 1, id |-> <<"1">>, allow |-> <<"4">>, deny |-> <<"8">>]>>

\* categories (type 4) have no parent; the last one carries an overwrite
\* whose id passes isdigit() and is rejected by int()
CategoryRecords ==
    [id : {<<"7">>, <<"x">>}, type : {4}, position : OptPositions,
     parent_id : {<<>>}, permission_overwrites : {<<>>, MixedOverwrites}]
    \cup {Channel(<<"7">>, 4, <<>>, <<>>, <<Overwrite(0, <<"sup2">>)>>)}

\* text channels: no parent, the parent "7", an unparseable parent
TextRecords ==
    [id : {<<"8">>}, type : {0}, position : {<<>>},
     parent_id : {<<>>, <<"7">>, <<"x">>}, permission_overwrites : {<<>>}]
    \cup {Channel(<<"8">>, 0, <<1>>, <<"7">>, MixedOverwrites),
          Channel(<<"8">>, 0, <<>>, <<>>, MemberOverwrites)}

\* voice, announcement, stage and forum channels
OtherRecords ==
    [id : {<<"9">>}, type : {2, 5, 13, 15}, position : {<<>>},
     parent_id : {<<>>}, permission_overwrites : {<<>>}]

ChannelRecords == CategoryRecords \cup TextRecords \cup OtherRecords

\* category ids are unique in a guild
DistinctCategoryIds(s) ==
    \A i, j \in 1..Len(s) :
        (i # j /\ s[i].type = 4 /\ s[j].type = 4) => s[i].id # s[j].id

ChannelLists ==
    {s \in SeqsUpTo(ChannelRecords, MaxChannels) : DistinctCategoryIds(s)}

SmallChannelLists == {<<>>, <<Channel(<<"8">>, 0, <<>>, <<>>, <<>>)>>}

\* the source guilds considered: any roles with few channels, or few roles
\* with any channels.  RoleBodies are the bodies of the roles read,
\* ChannelBodies(roles_data) those of the channels read that follows
RoleBodies == RoleLists \cup SmallRoleLists

ChannelBodies(roles_data) ==
    IF roles_data \in SmallRoleLists THEN ChannelLists \cup SmallChannelLists
    ELSE SmallChannelLists

\* the source guild <<"6">> has the structure KnownRoles / KnownChannels: a
\* role, a category with an overwrite of that role, a text channel in the
\* category
KnownOrigemId == <<"6">>

KnownRoles ==
    <<[id |-> <<"1">>, name |-> "Mod", managed |-> FALSE, position |-> <<>>]>>

KnownChannels ==
    <<Channel(<<"7">>, 4, <<>>, <<>>, <<Overwrite(0, <<"1">>)>>),
      Channel(<<"8">>, 0, <<1>>, <<"7">>, MixedOverwrites)>>

\* any other origem_id names a guild of any structure
OrigemIdStrs == {<<"5">>, KnownOrigemId}

\* what GET /guilds/{origem_id}/roles may answer with status 200
SourceRoleBodies(origem) ==
    IF origem = KnownOrigemId THEN {KnownRoles} ELSE RoleBodies

\* what GET /guilds/{origem_id}/channels may answer with status 200
SourceChannelBodies(origem, roles_data) ==
    IF origem = KnownOrigemId THEN {KnownChannels}
    ELSE ChannelBodies(roles_data)

DestIdStrs == {<<"1", "0">>, <<"2", "0">>, <<"z">>}

\* ids of the guilds the bot is a member of (bot.get_guild finds these)
BotGuildIds == {10, 30}

\* the guilds the command is issued in
IssuingGuildIds == {10, 30}

\* the guilds in which the invoking user holds administrator
UserAdminGuildIds == {30}

----------------------------------------------------------------------------
(* Helpers *)

\* sort(reverse=True): the highest position first
RECURSIVE InsertByPositionDescending(_, _)
InsertByPositionDescending(sorted, x) ==
    IF sorted = <<>> THEN <<x>>
    ELSE LET last == sorted[Len(sorted)] IN
         IF GetOr(last.position, 0) >= GetOr(x.position, 0)
         THEN Append(sorted, x)
         ELSE Append(InsertByPositionDescending(
                         SubSeq(sorted, 1, Len(sorted) - 1), x), last)

\* list.sort(key=position) is stable: x goes after every element whose key
\* is <= its own
RECURSIVE InsertByPosition(_, _)
InsertByPosition(sorted, x) ==
    IF sorted = <<>> THEN <<x>>
    ELSE LET last == sorted[Len(sorted)] IN
         IF GetOr(last.position, 0) <= GetOr(x.position, 0)
         THEN Append(sorted, x)
         ELSE Append(InsertByPosition(SubSeq(sorted, 1, Len(sorted) - 1), x),
                     last)

RECURSIVE SortByPosition(_)
SortByPosition(s) ==
    IF s = <<>> THEN <<>>
    ELSE InsertByPosition(SortByPosition(SubSeq(s, 1, Len(s) - 1)), s[Len(s)])

CopyableIgnoresManaged(role) == role.name # "@everyone"

\* the filter of clone_roles_user: neither managed nor named @everyone
Copyable(role) == ~role.managed /\ role.name # "@everyone"

\* roles_to_copy after the filter and the sort
RolesToCopy(roles_data) == SortByPosition(SelectSeq(roles_data, Copyable))

\* None as a category / handle (handles start at 1)
NoHandle == 0

\* an entry of the trace of remote calls
Call(op, item, res, category, new) ==
    [op |-> op, item |-> item, res |-> res, category |-> category,
     new |-> new]

\* the pause left out
no_sleep(item) == <<>>

\* await asyncio.sleep(1) while item is processed, as it shows in the trace
asyncio_sleep(item) == <<Call("sleep", item, "ok", NoHandle, NoHandle)>>

\* an entry of the trace of messages: item is the loop item the message is
\* about or the number it states (0: neither)
Msg(kind, item) == [kind |-> kind, item |-> item]

\* outcomes of a create call on the destination
CreateResults == {"ok", "forbidden", "other"}

\* outcomes of a read of the source: status 200, another status, a body
\* that response.json() rejects (a ValueError), a transport exception
ReadResults == {"200", "fail", "malformed", "exception"}

----------------------------------------------------------------------------
(* map_overwrites *)

\* the entry makes int() raise: it passed the isdigit test, or its
\* allow/deny is not a number
OverwriteRaises(overwrite, rm) ==
    /\ overwrite.type = 0
    /\ PyIsDigit(overwrite.id)
    /\ \/ ~PyIntOK(overwrite.id)
       \/ /\ PyInt(overwrite.id) \in DOMAIN rm
          /\ ~(PyIntOK(overwrite.allow) /\ PyIntOK(overwrite.deny))

MapOverwritesRaises(overwrites, rm) ==
    \E i \in 1..Len(overwrites) : OverwriteRaises(overwrites[i], rm)

\* the test on overwrite['type'] left out: members are mapped like roles
RECURSIVE map_overwrites_any_type(_, _)
map_overwrites_any_type(overwrites, rm) ==
    IF overwrites = <<>> THEN <<>>
    ELSE LET n == Len(overwrites)
             overwrite == overwrites[n]
             mapped == map_overwrites_any_type(SubSeq(overwrites, 1, n - 1),
                                               rm)
         IN  IF /\ PyIsDigit(overwrite.id)
                /\ PyInt(overwrite.id) \in DOMAIN rm
             THEN (rm[PyInt(overwrite.id)] :>
                      <<PyInt(overwrite.allow), PyInt(overwrite.deny)>>)
                  @@ mapped
             ELSE mapped

\* the dict new role -> <<allow, deny>>; a later entry for the same role
\* replaces an earlier one
RECURSIVE map_overwrites(_, _)
map_overwrites(overwrites, rm) ==
    IF overwrites = <<>> THEN <<>>
    ELSE LET n == Len(overwrites)
             overwrite == overwrites[n]
             mapped == map_overwrites(SubSeq(overwrites, 1, n - 1), rm)
         IN  IF /\ overwrite.type = 0
                /\ PyIsDigit(overwrite.id)
                /\ PyInt(overwrite.id) \in DOMAIN rm
             THEN (rm[PyInt(overwrite.id)] :>
                      <<PyInt(overwrite.allow), PyInt(overwrite.deny)>>)
                  @@ mapped
             ELSE mapped

----------------------------------------------------------------------------
(* The command handler *)

\* no other invocation
NoContext == <<>>

startup_state ==
    <<token, intents_enabled, stmt, module_globals, tree_commands>>
preset_state == <<interactions, nome, lista_cargos, preset_file>>
cargos_locals ==
    <<role_data_list, created_roles, failed_roles, reorder_success, li,
      pending_roles>>
limpeza_state == <<startup_state, preset_state, cargos_locals>>

\* the module-level statements of bot_limpeza.py are not being run
NoStartup ==
    /\ token = <<>>
    /\ intents_enabled = TRUE
    /\ stmt = 0
    /\ module_globals = {}
    /\ tree_commands = {}

\* role_presets.json does not exist
NoFile == [kind |-> "missing", store |-> <<>>]

\* no command of bot_limpeza.py that creates roles or touches the presets
\* was received
NoPresets ==
    /\ interactions = <<>>
    /\ nome = <<>>
    /\ lista_cargos = <<>>
    /\ preset_file = NoFile
    /\ role_data_list = <<>>
    /\ created_roles = <<>>
    /\ failed_roles = <<>>
    /\ reorder_success = TRUE
    /\ li = 0
    /\ pending_roles = <<>>

LimpezaIdle == NoStartup /\ NoPresets

Init ==
    /\ command = "clonar_servidor_user"
    /\ me_top_role = 0
    /\ to_delete = <<>>
    /\ di = 0
    /\ deleted_count = 0
    /\ printed = <<>>
    /\ pc = "start"
    /\ guild_id \in IssuingGuildIds
    /\ origem_id \in OrigemIdStrs
    /\ destino_id \in DestIdStrs
    /\ me_admin \in BOOLEAN
    /\ source_roles = <<>>
    /\ source_channels = <<>>
    /\ roles_to_copy = <<>>
    /\ role_mapping = <<>>
    /\ ri = 0
    /\ channels_data = <<>>
    /\ category_mapping = <<>>
    /\ ci = 0
    /\ guild_roles = <<>>
    /\ guild_channels = <<>>
    /\ calls = <<>>
    /\ msgs = <<>>
    /\ invocation = 1
    /\ suspended = NoContext
    /\ LimpezaIdle

inputs ==
    <<command, guild_id, origem_id, destino_id, me_admin, me_top_role>>
scheduling == <<invocation, suspended>>
apagar_locals == <<to_delete, di, deleted_count, printed>>
role_locals == <<roles_to_copy, role_mapping, ri>>
channel_locals == <<channels_data, category_mapping, ci>>

\* the mapping is replaced by the new entry
SetItemAlone(mapping, key, value) == (key :> value)

\* the new handle is not recorded
SetItemDropped(mapping, key, value) == mapping

\* mapping[key] = value on a dict
SetItem(mapping, key, value) == (key :> value) @@ mapping

\* except ValueError of clone_server_user_slash; item is the loop item
\* whose processing raised (0: not raised by an item of a loop)
RaiseValueError(item) ==
    /\ msgs' = Append(msgs, Msg("invalid_id", item))
    /\ pc' = "done"

\* except Exception of clone_server_user_slash
RaiseException ==
    /\ msgs' = Append(msgs, Msg("unexpected_error", 0))
    /\ pc' = "done"

\* app_commands.checks.has_permissions(administrator=True): the user's
\* permissions where the command is issued
HasPermissions(guild) == guild \in UserAdminGuildIds

\* the check fails: the callback is not run (no tree.on_error handler is
\* installed, nothing is sent)
MissingPermissions ==
    /\ pc = "start"
    /\ ~HasPermissions(guild_id)
    /\ pc' = "rejected"
    /\ UNCHANGED <<scheduling, apagar_locals, limpeza_state>>
    /\ UNCHANGED <<inputs, source_roles, source_channels,
                   role_locals, channel_locals, guild_roles, guild_channels,
                   calls, msgs>>

\* interaction.response.defer
Defer ==
    /\ command = "clonar_servidor_user"
    /\ pc = "start"
    /\ HasPermissions(guild_id)
    /\ msgs' = Append(msgs, Msg("defer", 0))
    /\ pc' = "check"
    /\ UNCHANGED <<scheduling, apagar_locals, limpeza_state>>
    /\ UNCHANGED <<inputs, source_roles, source_channels, role_locals,
                   channel_locals, guild_roles, guild_channels, calls>>

\* bot.get_guild(int(destino_id)) returns None
GuildNotFound(id) == PyInt(id) \notin BotGuildIds

MissingAdminNever(admin) == FALSE

\* not guild_destino.me.guild_permissions.administrator
MissingAdmin(admin) == ~admin

\* the checks on the destination guild
CheckDestination ==
    /\ pc = "check"
    /\ IF ~PyIntOK(destino_id) THEN RaiseValueError(0)
       ELSE IF GuildNotFound(destino_id)
       THEN /\ msgs' = Append(msgs, Msg("dest_not_found", 0))
            /\ pc' = "done"
       ELSE IF MissingAdmin(me_admin)
       THEN /\ msgs' = Append(msgs, Msg("not_admin", 0))
            /\ pc' = "done"
       ELSE /\ msgs' = Append(msgs, Msg("starting", 0))
            /\ pc' = "get_roles"
    /\ UNCHANGED <<scheduling, apagar_locals, limpeza_state>>
    /\ UNCHANGED <<inputs, source_roles, source_channels, role_locals,
                   channel_locals, guild_roles, guild_channels, calls>>

\* clone_roles_user up to the loop
GetRoles ==
    /\ pc = "get_roles"
    /\ \E status \in ReadResults :
        /\ calls' = Append(calls, Call("GET_roles", 0, status, NoHandle,
                                       NoHandle))
        /\ CASE status = "exception" ->
                  RaiseException /\ UNCHANGED <<role_locals, source_roles>>
             [] status = "malformed" ->
                  RaiseValueError(0) /\ UNCHANGED <<role_locals, source_roles>>
             [] status = "fail" ->
                  /\ msgs' = Append(msgs, Msg("roles_read_failed", 0))
                  /\ role_mapping' = <<>>
                  /\ pc' = "get_channels"
                  /\ UNCHANGED <<roles_to_copy, ri, source_roles>>
             [] status = "200" ->
                  \E roles_data \in SourceRoleBodies(origem_id) :
                  /\ source_roles' = roles_data
                  /\ roles_to_copy' = RolesToCopy(roles_data)
                  /\ role_mapping' = <<>>
                  /\ msgs' = Append(msgs, Msg("copying_roles", 0))
                  /\ ri' = 1
                  /\ pc' = "role_loop"
    /\ UNCHANGED <<scheduling, apagar_locals, limpeza_state>>
    /\ UNCHANGED <<inputs, source_channels, channel_locals, guild_roles,
                   guild_channels>>

\* where the category loop stands when its index is i
AfterCategory(data, i) ==
    IF i > Len(data) THEN <<"chan_loop", 1>> ELSE <<"cat_loop", i>>

OnForbiddenContinue(loop, i) ==
    IF loop = "cat_loop" THEN AfterCategory(channels_data, i + 1)
    ELSE <<loop, i + 1>>

OnForbiddenAbort(loop, i) == <<"done", i>>

\* except discord.Forbidden: break -- the position after the loop
OnForbidden(loop, i) ==
    CASE loop = "role_loop" -> <<"roles_end", i>>
      [] loop = "cat_loop" -> <<"chan_loop", 1>>
      [] loop = "chan_loop" -> <<"channels_end", i>>

OnOtherBreak(loop, i) ==
    CASE loop = "role_loop" -> <<"roles_end", i>>
      [] loop = "cat_loop" -> <<"chan_loop", 1>>
      [] loop = "chan_loop" -> <<"channels_end", i>>

\* except Exception: the loop goes on with the next item
OnOther(loop, i) ==
    IF loop = "cat_loop" THEN AfterCategory(channels_data, i + 1)
    ELSE <<loop, i + 1>>

\* an existing role of that name is taken for the new one
create_role_unless_named(roles, record) ==
    IF \E n \in DOMAIN roles : roles[n].name = record.name THEN roles
    ELSE Append(roles, record)

\* guild_destino.create_role: the guild gets one more role, whatever roles
\* it has (old: the source id the role was made from)
create_role(roles, record) == Append(roles, record)

\* one iteration of the role loop
RoleLoop ==
    /\ pc = "role_loop"
    /\ ri <= Len(roles_to_copy)
    /\ LET role == roles_to_copy[ri] IN
       IF ~PyIntOK(role.id)
       THEN /\ RaiseValueError(ri)
            /\ UNCHANGED <<role_locals, guild_roles, calls>>
       ELSE \E res \in CreateResults :
            LET old_role_id == PyInt(role.id)
                new_role == Len(guild_roles) + 1
            IN  CASE res = "ok" ->
                      /\ calls' = calls \o
                            <<Call("create_role", ri, res, NoHandle,
                                   new_role)>> \o asyncio_sleep(ri)
                      /\ guild_roles' = create_role(guild_roles,
                            [name |-> role.name, old |-> old_role_id])
                      /\ role_mapping' = SetItem(role_mapping, old_role_id,
                                                 new_role)
                      /\ ri' = ri + 1
                      /\ UNCHANGED <<pc, msgs, roles_to_copy>>
                  [] res = "forbidden" ->
                      /\ calls' = Append(calls,
                            Call("create_role", ri, res, NoHandle, NoHandle))
                      /\ msgs' = Append(msgs, Msg("role_forbidden", ri))
                      /\ pc' = OnForbidden("role_loop", ri)[1]
                      /\ ri' = OnForbidden("role_loop", ri)[2]
                      /\ UNCHANGED <<roles_to_copy, role_mapping,
                                     guild_roles>>
                  [] res = "other" ->
                      /\ calls' = Append(calls,
                            Call("create_role", ri, res, NoHandle, NoHandle))
                      /\ msgs' = Append(msgs, Msg("role_error", ri))
                      /\ pc' = OnOther("role_loop", ri)[1]
                      /\ ri' = OnOther("role_loop", ri)[2]
                      /\ UNCHANGED <<roles_to_copy, role_mapping,
                                     guild_roles>>
    /\ UNCHANGED <<scheduling, apagar_locals, limpeza_state>>
    /\ UNCHANGED <<inputs, source_roles, source_channels, channel_locals,
                   guild_channels>>

\* clone_roles_user returns an empty mapping
RolesEndReturnsEmpty ==
    /\ \/ pc = "roles_end"
       \/ pc = "role_loop" /\ ri > Len(roles_to_copy)
    /\ msgs' = Append(msgs, Msg("roles_copied", 0))
    /\ pc' = "get_channels"
    /\ role_mapping' = <<>>
    /\ UNCHANGED <<scheduling, apagar_locals, limpeza_state>>
    /\ UNCHANGED <<inputs, source_roles, source_channels, roles_to_copy, ri,
                   channel_locals, guild_roles, guild_channels, calls>>

\* after the role loop (exhausted or left by break)
RolesEnd ==
    /\ \/ pc = "roles_end"
       \/ pc = "role_loop" /\ ri > Len(roles_to_copy)
    /\ msgs' = Append(msgs, Msg("roles_copied", 0))
    /\ pc' = "get_channels"
    /\ UNCHANGED <<scheduling, apagar_locals, limpeza_state>>
    /\ UNCHANGED <<inputs, source_roles, source_channels, role_locals,
                   channel_locals, guild_roles, guild_channels, calls>>

\* clone_channels_user up to the category loop
GetChannels ==
    /\ pc = "get_channels"
    /\ \E status \in ReadResults :
        /\ calls' = Append(calls, Call("GET_channels", 0, status, NoHandle,
                                       NoHandle))
        /\ CASE status = "exception" ->
                  RaiseException
                  /\ UNCHANGED <<channel_locals, source_channels>>
             [] status = "malformed" ->
                  RaiseValueError(0)
                  /\ UNCHANGED <<channel_locals, source_channels>>
             [] status = "fail" ->
                  /\ msgs' = Append(msgs, Msg("channels_read_failed", 0))
                  /\ pc' = "finish"
                  /\ UNCHANGED <<channel_locals, source_channels>>
             [] status = "200" ->
                  \E body \in SourceChannelBodies(origem_id, source_roles) :
                  LET data == SortByPosition(body) IN
                  /\ source_channels' = body
                  /\ channels_data' = data
                  /\ category_mapping' = <<>>
                  /\ msgs' = Append(msgs, Msg("copying_channels", 0))
                  /\ pc' = AfterCategory(data, 1)[1]
                  /\ ci' = AfterCategory(data, 1)[2]
    /\ UNCHANGED <<scheduling, apagar_locals, limpeza_state>>
    /\ UNCHANGED <<inputs, source_roles, role_locals, guild_roles,
                   guild_channels>>

SkipItemCreates(next) ==
    /\ pc' = next[1]
    /\ ci' = next[2]
    /\ calls' = Append(calls, Call("create_text_channel", ci, "ok", NoHandle,
                                   Len(guild_channels) + 1))
    /\ guild_channels' = Append(guild_channels,
            [kind |-> "create_text_channel", category |-> NoHandle,
             overwrites |-> <<>>])
    /\ UNCHANGED <<channels_data, category_mapping, msgs>>

\* pass 1 on a record that is not a category: nothing but the next item
SkipItem(next) ==
    /\ pc' = next[1]
    /\ ci' = next[2]
    /\ UNCHANGED <<channels_data, category_mapping, guild_channels, calls,
                   msgs>>

\* one iteration of the category loop (pass 1)
CategoryLoop ==
    /\ pc = "cat_loop"
    /\ ci <= Len(channels_data)
    /\ LET channel == channels_data[ci]
           overwrites == channel.permission_overwrites
           next == AfterCategory(channels_data, ci + 1)
       IN
       IF channel.type # 4
       THEN SkipItem(next)
       ELSE IF ~PyIntOK(channel.id) \/ MapOverwritesRaises(overwrites,
                                                          role_mapping)
       THEN /\ RaiseValueError(ci)
            /\ UNCHANGED <<channel_locals, guild_channels, calls>>
       ELSE \E res \in CreateResults :
            LET old_category_id == PyInt(channel.id)
                new_category == Len(guild_channels) + 1
            IN  CASE res = "ok" ->
                      /\ calls' = calls \o
                            <<Call("create_category", ci, res, NoHandle,
                                   new_category)>> \o asyncio_sleep(ci)
                      /\ guild_channels' = Append(guild_channels,
                            [kind |-> "category", category |-> NoHandle,
                             overwrites |-> map_overwrites(overwrites,
                                                           role_mapping)])
                      /\ category_mapping' = SetItem(category_mapping,
                            old_category_id, new_category)
                      /\ pc' = next[1]
                      /\ ci' = next[2]
                      /\ UNCHANGED <<msgs, channels_data>>
                  [] res = "forbidden" ->
                      /\ calls' = Append(calls,
                            Call("create_category", ci, res, NoHandle,
                                 NoHandle))
                      /\ msgs' = Append(msgs, Msg("category_forbidden", ci))
                      /\ pc' = OnForbidden("cat_loop", ci)[1]
                      /\ ci' = OnForbidden("cat_loop", ci)[2]
                      /\ UNCHANGED <<channels_data, category_mapping,
                                     guild_channels>>
                  [] res = "other" ->
                      /\ calls' = Append(calls,
                            Call("create_category", ci, res, NoHandle,
                                 NoHandle))
                      /\ msgs' = Append(msgs, Msg("category_error", ci))
                      /\ pc' = OnOther("cat_loop", ci)[1]
                      /\ ci' = OnOther("cat_loop", ci)[2]
                      /\ UNCHANGED <<channels_data, category_mapping,
                                     guild_channels>>
    /\ UNCHANGED <<scheduling, apagar_locals, limpeza_state>>
    /\ UNCHANGED <<inputs, source_roles, source_channels, role_locals,
                   guild_roles>>

\* new_category is not reset: the category created last leaks in
ResolveParentStale(parent_id, cm) ==
    IF Truthy(parent_id) /\ PyIntOK(parent_id)
                         /\ PyInt(parent_id) \in DOMAIN cm
    THEN cm[PyInt(parent_id)]
    ELSE IF DOMAIN cm = {} THEN NoHandle
    ELSE CHOOSE h \in {cm[k] : k \in DOMAIN cm} :
            \A g \in {cm[k] : k \in DOMAIN cm} : g <= h

ResolveParentNone(parent_id, cm) == NoHandle

\* the category a channel is created in: category_mapping[int(parent_id)]
\* when parent_id is set, parses and is a key, else None
ResolveParent(parent_id, cm) ==
    IF Truthy(parent_id) /\ PyIntOK(parent_id)
                         /\ PyInt(parent_id) \in DOMAIN cm
    THEN cm[PyInt(parent_id)]
    ELSE NoHandle

\* announcement channels treated like forum channels
CreateOpWithoutAnnouncement(channel_type) ==
    CASE channel_type = 0 -> "create_text_channel"
      [] channel_type = 2 -> "create_voice_channel"
      [] channel_type = 13 -> "create_stage_channel"
      [] OTHER -> "none"

\* the creation call a channel type is dispatched to ("none": no call)
CreateOp(channel_type) ==
    CASE channel_type = 0 -> "create_text_channel"
      [] channel_type = 2 -> "create_voice_channel"
      [] channel_type = 5 -> "create_text_channel"
      [] channel_type = 13 -> "create_stage_channel"
      [] OTHER -> "none"

\* one iteration of the channel loop (pass 2)
ChannelLoop ==
    /\ pc = "chan_loop"
    /\ ci <= Len(channels_data)
    /\ LET channel == channels_data[ci]
           overwrites == channel.permission_overwrites
           new_category == ResolveParent(channel.parent_id, category_mapping)
           op == CreateOp(channel.type)
       IN
       IF channel.type = 4
       THEN /\ ci' = ci + 1
            /\ UNCHANGED <<pc, guild_channels, calls, msgs>>
       ELSE IF MapOverwritesRaises(overwrites, role_mapping)
       THEN /\ RaiseValueError(ci)
            /\ UNCHANGED <<ci, guild_channels, calls>>
       ELSE IF op = "none"
       THEN /\ calls' = calls \o asyncio_sleep(ci)
            /\ ci' = ci + 1
            /\ UNCHANGED <<pc, guild_channels, msgs>>
       ELSE \E res \in CreateResults :
            CASE res = "ok" ->
                  /\ calls' = calls \o
                        <<Call(op, ci, res, new_category,
                               Len(guild_channels) + 1)>> \o asyncio_sleep(ci)
                  /\ guild_channels' = Append(guild_channels,
                        [kind |-> op, category |-> new_category,
                         overwrites |-> map_overwrites(overwrites,
                                                       role_mapping)])
                  /\ ci' = ci + 1
                  /\ UNCHANGED <<pc, msgs>>
              [] res = "forbidden" ->
                  /\ calls' = Append(calls,
                        Call(op, ci, res, new_category, NoHandle))
                  /\ msgs' = Append(msgs, Msg("channel_forbidden", ci))
                  /\ pc' = OnForbidden("chan_loop", ci)[1]
                  /\ ci' = OnForbidden("chan_loop", ci)[2]
                  /\ UNCHANGED guild_channels
              [] res = "other" ->
                  /\ calls' = Append(calls,
                        Call(op, ci, res, new_category, NoHandle))
                  /\ msgs' = Append(msgs, Msg("channel_error", ci))
                  /\ pc' = OnOther("chan_loop", ci)[1]
                  /\ ci' = OnOther("chan_loop", ci)[2]
                  /\ UNCHANGED guild_channels
    /\ UNCHANGED <<scheduling, apagar_locals, limpeza_state>>
    /\ UNCHANGED <<inputs, source_roles, source_channels, role_locals,
                   channels_data, category_mapping, guild_roles>>

\* after the channel loop (exhausted or left by break)
ChannelsEnd ==
    /\ \/ pc = "channels_end"
       \/ pc = "chan_loop" /\ ci > Len(channels_data)
    /\ msgs' = Append(msgs, Msg("channels_copied", 0))
    /\ pc' = "finish"
    /\ UNCHANGED <<scheduling, apagar_locals, limpeza_state>>
    /\ UNCHANGED <<inputs, source_roles, source_channels, role_locals,
                   channel_locals, guild_roles, guild_channels, calls>>

\* the closing message of clone_server_user_slash
Finish ==
    /\ pc = "finish"
    /\ msgs' = Append(msgs, Msg("success", 0))
    /\ pc' = "done"
    /\ UNCHANGED <<scheduling, apagar_locals, limpeza_state>>
    /\ UNCHANGED <<inputs, source_roles, source_channels, role_locals,
                   channel_locals, guild_roles, guild_channels, calls>>

Next ==
    \/ MissingPermissions
    \/ Defer
    \/ CheckDestination
    \/ GetRoles
    \/ RoleLoop
    \/ RolesEnd
    \/ GetChannels
    \/ CategoryLoop
    \/ ChannelLoop
    \/ ChannelsEnd
    \/ Finish

Spec == Init /\ [][Next]_vars

----------------------------------------------------------------------------
(* Two invocations of the command on the same event loop *)

\* the state of a handler: the locals of its coroutine frames, its calls and
\* its messages
Context ==
    [pc |-> pc, source_roles |-> source_roles,
     source_channels |-> source_channels, roles_to_copy |-> roles_to_copy,
     role_mapping |-> role_mapping, ri |-> ri,
     channels_data |-> channels_data,
     category_mapping |-> category_mapping, ci |-> ci, calls |-> calls,
     msgs |-> msgs]

\* a handler that has not started
FreshContext ==
    [pc |-> "start", source_roles |-> <<>>, source_channels |-> <<>>,
     roles_to_copy |-> <<>>, role_mapping |-> <<>>, ri |-> 0,
     channels_data |-> <<>>, category_mapping |-> <<>>, ci |-> 0,
     calls |-> <<>>, msgs |-> <<>>]

\* the mappings kept on the cog (self.role_mapping) instead of in the frames
ResumeMappingsShared(ctx) == UNCHANGED <<role_mapping, category_mapping>>

\* role_mapping and category_mapping are locals of clone_roles_user and
\* clone_channels_user: a resumed handler finds its own
ResumeMappings(ctx) ==
    /\ role_mapping' = ctx.role_mapping
    /\ category_mapping' = ctx.category_mapping

\* at an await the event loop resumes the other handler
Switch ==
    /\ suspended # NoContext
    /\ suspended.pc \notin {"done", "rejected"}
    /\ suspended' = Context
    /\ invocation' = 3 - invocation
    /\ pc' = suspended.pc
    /\ source_roles' = suspended.source_roles
    /\ source_channels' = suspended.source_channels
    /\ roles_to_copy' = suspended.roles_to_copy
    /\ ri' = suspended.ri
    /\ channels_data' = suspended.channels_data
    /\ ci' = suspended.ci
    /\ calls' = suspended.calls
    /\ msgs' = suspended.msgs
    /\ ResumeMappings(suspended)
    /\ UNCHANGED <<inputs, guild_roles, guild_channels, apagar_locals,
                   limpeza_state>>

\* the command is issued twice with the same arguments, by an
\* administrator of the issuing guild, for a destination the bot
\* administers
InitTwo ==
    /\ command = "clonar_servidor_user"
    /\ me_top_role = 0
    /\ to_delete = <<>>
    /\ di = 0
    /\ deleted_count = 0
    /\ printed = <<>>
    /\ pc = "start"
    /\ guild_id \in UserAdminGuildIds
    /\ origem_id = KnownOrigemId
    /\ destino_id = <<"1", "0">>
    /\ me_admin = TRUE
    /\ source_roles = <<>>
    /\ source_channels = <<>>
    /\ roles_to_copy = <<>>
    /\ role_mapping = <<>>
    /\ ri = 0
    /\ channels_data = <<>>
    /\ category_mapping = <<>>
    /\ ci = 0
    /\ guild_roles = <<>>
    /\ guild_channels = <<>>
    /\ calls = <<>>
    /\ msgs = <<>>
    /\ invocation = 1
    /\ suspended = FreshContext
    /\ LimpezaIdle

NextTwo ==
    \/ Defer
    \/ CheckDestination
    \/ GetRoles
    \/ RoleLoop
    \/ RolesEnd
    \/ GetChannels
    \/ CategoryLoop
    \/ ChannelLoop
    \/ ChannelsEnd
    \/ Finish
    \/ Switch

SpecTwo == InitTwo /\ [][NextTwo]_vars

----------------------------------------------------------------------------
(* apagar_canais_slash and apagar_cargos_slash of bot_limpeza.py.  The      *)
(* guild is interaction.guild: guild_channels are its channels (names),    *)
(* guild_roles its roles, lowest first, as [name, position].               *)

ApagarCommands == {"apagar_canais", "apagar_cargos"}

ChannelNames == {"geral", "voz"}

Distinct(s) == \A i, j \in DOMAIN s : i # j => s[i] # s[j]

\* the channels a guild may have
GuildChannelLists ==
    {s \in SeqsUpTo(ChannelNames, MaxGuildChannels) : Distinct(s)}

\* guild.roles: @everyone at position 0, the others above it
GuildRoles ==
    <<[id |-> 1, name |-> "@everyone", position |-> 0],
      [id |-> 2, name |-> "Mod", position |-> 1],
      [id |-> 3, name |-> "Bot", position |-> 2],
      [id |-> 4, name |-> "Dono", position |-> 3]>>

\* positions guild.me.top_role may have
TopRolePositions == {0, 2, 3}

\* outcomes of channel.delete() / role.delete()
DeleteResults == {"ok", "forbidden", "other"}

\* role <= guild.me.top_role
BelowOrAtTopRole(role, top) == role.position <= top

\* role < guild.me.top_role
BelowTopRole(role, top) == role.position < top

\* the filter of roles_to_delete
Deletable(role) ==
    role.name # "@everyone" /\ BelowTopRole(role, me_top_role)

InitApagar ==
    /\ command \in ApagarCommands
    /\ pc = "start"
    /\ guild_id \in IssuingGuildIds
    /\ me_top_role \in TopRolePositions
    /\ guild_channels \in GuildChannelLists
    /\ guild_roles = GuildRoles
    /\ to_delete = <<>>
    /\ di = 0
    /\ deleted_count = 0
    /\ printed = <<>>
    /\ calls = <<>>
    /\ msgs = <<>>
    /\ origem_id = <<>>
    /\ destino_id = <<>>
    /\ me_admin = FALSE
    /\ source_roles = <<>>
    /\ source_channels = <<>>
    /\ roles_to_copy = <<>>
    /\ role_mapping = <<>>
    /\ ri = 0
    /\ channels_data = <<>>
    /\ category_mapping = <<>>
    /\ ci = 0
    /\ invocation = 1
    /\ suspended = NoContext
    /\ LimpezaIdle

cloner_locals ==
    <<source_roles, source_channels, role_locals, channel_locals>>

\* the handler up to the loop: defer, the list of what to delete, the
\* warning with its length (interaction.guild is a guild: the permission
\* check has passed)
ApagarStart ==
    /\ command \in ApagarCommands
    /\ pc = "start"
    /\ HasPermissions(guild_id)
    /\ to_delete' = IF command = "apagar_canais" THEN guild_channels
                    ELSE SelectSeq(guild_roles, Deletable)
    /\ deleted_count' = 0
    /\ msgs' = msgs \o <<Msg("defer", 0), Msg("deleting", Len(to_delete'))>>
    /\ di' = 1
    /\ pc' = "delete_loop"
    /\ UNCHANGED limpeza_state
    /\ UNCHANGED <<inputs, scheduling, cloner_locals, guild_roles,
                   guild_channels, calls, printed>>

\* the guild without the deleted object
Without(objects, x) == SelectSeq(objects, LAMBDA y : y # x)

\* one iteration of the deletion loop
ApagarLoop ==
    /\ pc = "delete_loop"
    /\ di <= Len(to_delete)
    /\ \E res \in DeleteResults :
          /\ calls' = Append(calls, Call("delete", di, res, NoHandle, NoHandle))
          /\ CASE res = "ok" ->
                    /\ deleted_count' = deleted_count + 1
                    /\ IF command = "apagar_canais"
                       THEN /\ guild_channels' =
                                  Without(guild_channels, to_delete[di])
                            /\ UNCHANGED guild_roles
                       ELSE /\ guild_roles' =
                                  Without(guild_roles, to_delete[di])
                            /\ UNCHANGED guild_channels
                    /\ UNCHANGED printed
               [] res = "forbidden" ->
                    /\ printed' = Append(printed, Msg("delete_forbidden", di))
                    /\ UNCHANGED <<deleted_count, guild_roles, guild_channels>>
               [] res = "other" ->
                    /\ printed' = Append(printed, Msg("delete_error", di))
                    /\ UNCHANGED <<deleted_count, guild_roles, guild_channels>>
    /\ di' = di + 1
    /\ UNCHANGED limpeza_state
    /\ UNCHANGED <<inputs, scheduling, cloner_locals, to_delete, pc, msgs>>

\* the closing message with deleted_count
ApagarEnd ==
    /\ pc = "delete_loop"
    /\ di > Len(to_delete)
    /\ msgs' = Append(msgs, Msg("deleted", deleted_count))
    /\ pc' = "done"
    /\ UNCHANGED limpeza_state
    /\ UNCHANGED <<inputs, scheduling, cloner_locals, apagar_locals,
                   guild_roles, guild_channels, calls>>

NextApagar ==
    \/ MissingPermissions
    \/ ApagarStart
    \/ ApagarLoop
    \/ ApagarEnd

SpecApagar == InitApagar /\ [][NextApagar]_vars

----------------------------------------------------------------------------
(* Module start of bot_limpeza.py: the statements at module level, run   *)
(* top to bottom when the program is started                             *)

\* what os.getenv("DISCORD_TOKEN") may return: None or a string
TokenValues == {<<>>, <<"">>, <<"invalid">>, <<"valid">>}

\* a module-level statement: the names it reads when it is executed, the
\* names it binds and the commands it adds to bot.tree
Stmt(line, kind, uses, defines, registers) ==
    [line |-> line, kind |-> kind, uses |-> uses, defines |-> defines,
     registers |-> registers]

Decorators == {"bot", "app_commands", "discord"}

GroupDecorators == {"preset_group", "app_commands", "discord"}

ModuleStatements ==
    <<Stmt(1, "bind", {}, {"discord"}, {}),
      Stmt(2, "bind", {}, {"commands"}, {}),
      Stmt(3, "bind", {}, {"app_commands"}, {}),
      Stmt(4, "bind", {}, {"os"}, {}),
      Stmt(5, "bind", {}, {"json"}, {}),
      Stmt(6, "bind", {}, {"Dict", "List", "Any"}, {}),
      Stmt(7, "bind", {}, {"Path"}, {}),
      Stmt(12, "bind", {"discord"}, {"intents"}, {}),
      Stmt(13, "bind", {"intents"}, {}, {}),
      Stmt(14, "bind", {"intents"}, {}, {}),
      Stmt(15, "bind", {"intents"}, {}, {}),
      Stmt(16, "bind", {"intents"}, {}, {}),
      Stmt(19, "bind", {"os"}, {"TOKEN"}, {}),
      Stmt(20, "run", {"bot", "TOKEN"}, {}, {}),
      Stmt(23, "bind", {"Path"}, {"PRESET_FILE"}, {}),
      Stmt(25, "bind", {"Dict", "List", "Any"}, {"load_presets"}, {}),
      Stmt(43, "bind", {"Dict", "List", "Any"}, {"save_presets"}, {}),
      Stmt(48, "bind", {"commands", "discord", "app_commands"},
           {"ModerationBot"}, {}),
      Stmt(94, "bind", {"ModerationBot", "intents"}, {"bot"}, {}),
      Stmt(98, "bind", Decorators, {"criar_cargos_slash"},
           {"criar_cargos"}),
      Stmt(199, "bind", {"app_commands"}, {"preset_group"}, {}),
      Stmt(200, "bind", {"bot", "preset_group"}, {}, {"preset_cargos"}),
      Stmt(202, "bind", GroupDecorators, {"preset_listar_slash"},
           {"preset_cargos listar"}),
      Stmt(221, "bind", GroupDecorators, {"preset_salvar_slash"},
           {"preset_cargos salvar"}),
      Stmt(243, "bind", GroupDecorators, {"preset_usar_slash"},
           {"preset_cargos usar"}),
      Stmt(347, "bind", Decorators, {"sync_slash"}, {"sync"}),
      Stmt(355, "bind", Decorators, {"limpar_slash"}, {"limpar"}),
      Stmt(386, "bind", Decorators, {"apagar_canais_slash"},
           {"apagar_canais"}),
      Stmt(413, "bind", Decorators, {"apagar_cargos_slash"},
           {"apagar_cargos"}),
      Stmt(442, "main", {"TOKEN"}, {}, {})>>

\* how bot.run(tok) ends: it returns when the bot is closed ("ok") or
\* raises
RunOutcome(tok, intents) ==
    IF tok = <<>> THEN "TypeError"
    ELSE IF tok[1] # "valid" THEN "LoginFailure"
    ELSE IF ~intents THEN "PrivilegedIntentsRequired"
    ELSE "ok"

\* the program is started in some environment
InitStartup ==
    /\ token \in TokenValues
    /\ intents_enabled \in BOOLEAN
    /\ stmt = 1
    /\ module_globals = {}
    /\ tree_commands = {}
    /\ command = "python bot_limpeza.py"
    /\ pc = "start"
    /\ guild_id = 0
    /\ me_top_role = 0
    /\ to_delete = <<>>
    /\ di = 0
    /\ deleted_count = 0
    /\ printed = <<>>
    /\ origem_id = <<>>
    /\ destino_id = <<>>
    /\ me_admin = FALSE
    /\ source_roles = <<>>
    /\ source_channels = <<>>
    /\ roles_to_copy = <<>>
    /\ role_mapping = <<>>
    /\ ri = 0
    /\ channels_data = <<>>
    /\ category_mapping = <<>>
    /\ ci = 0
    /\ guild_roles = <<>>
    /\ guild_channels = <<>>
    /\ calls = <<>>
    /\ msgs = <<>>
    /\ invocation = 1
    /\ suspended = NoContext
    /\ NoPresets

\* the statement after stmt (0: the program has ended)
NextStmt == IF stmt < Len(ModuleStatements) THEN stmt + 1 ELSE 0

\* the interpreter executes the next module-level statement; a name that
\* is not bound yet raises NameError, and an exception outside a try ends
\* the program with a traceback
ModuleStep ==
    /\ stmt # 0
    /\ LET s == ModuleStatements[stmt]
           outcome == RunOutcome(token, intents_enabled)
           run == Call("run", s.line, outcome, NoHandle, NoHandle)
       IN
       IF ~(s.uses \subseteq module_globals)
       THEN /\ printed' = Append(printed, Msg("NameError", s.line))
            /\ stmt' = 0
            /\ UNCHANGED <<module_globals, tree_commands, calls>>
       ELSE IF s.kind = "bind"
       THEN /\ module_globals' = module_globals \cup s.defines
            /\ tree_commands' = tree_commands \cup s.registers
            /\ stmt' = NextStmt
            /\ UNCHANGED <<printed, calls>>
       ELSE IF s.kind = "run"
       THEN /\ calls' = Append(calls, run)
            /\ printed' = IF outcome = "ok" THEN printed
                           ELSE Append(printed, Msg(outcome, s.line))
            /\ stmt' = IF outcome = "ok" THEN NextStmt ELSE 0
            /\ UNCHANGED <<module_globals, tree_commands>>
       ELSE IF token = <<>>
       THEN /\ printed' = Append(printed, Msg("token_undefined", s.line))
            /\ stmt' = 0
            /\ UNCHANGED <<module_globals, tree_commands, calls>>
       ELSE IF "bot" \notin module_globals
       THEN /\ printed' = Append(printed, Msg("NameError", s.line))
            /\ stmt' = 0
            /\ UNCHANGED <<module_globals, tree_commands, calls>>
       ELSE /\ calls' = Append(calls, run)
            /\ printed' = IF outcome = "ok" THEN printed
                           ELSE Append(printed, Msg(outcome, s.line))
            /\ stmt' = 0
            /\ UNCHANGED <<module_globals, tree_commands>>
    /\ UNCHANGED <<token, intents_enabled, preset_state, cargos_locals>>
    /\ UNCHANGED <<inputs, scheduling, cloner_locals, guild_roles,
                   guild_channels, msgs, pc, to_delete, di, deleted_count>>

NextStartup == ModuleStep

SpecStartup == InitStartup /\ [][NextStartup]_vars

----------------------------------------------------------------------------
(* The presets and the creation of roles of bot_limpeza.py:              *)
(* criar_cargos_slash, preset_listar_slash, preset_salvar_slash,         *)
(* preset_usar_slash, load_presets and save_presets                      *)

\* str.lower() and str.upper(), character by character; "eszett" is the
\* letter U+00DF, which has no single upper-case letter
LowerChar(c) ==
    CASE c = "A" -> "a"
      [] c = "S" -> "s"
      [] OTHER -> c

UpperChars(c) ==
    CASE c = "a" -> <<"A">>
      [] c = "s" -> <<"S">>
      [] c = "eszett" -> <<"S", "S">>
      [] OTHER -> <<c>>

PyLower(str) == [i \in 1..Len(str) |-> LowerChar(str[i])]

RECURSIVE PyUpper(_)
PyUpper(str) ==
    IF str = <<>> THEN <<>>
    ELSE UpperChars(Head(str)) \o PyUpper(Tail(str))

\* str.strip() on the pieces considered
Strip(piece) ==
    CASE piece = " " -> ""
      [] piece = " Y" -> "Y"
      [] OTHER -> piece

\* [name.strip() for name in ....split('\n') if name.strip()]
ParseLista(pieces) ==
    SelectSeq([i \in DOMAIN pieces |-> Strip(pieces[i])],
              LAMBDA name : name # "")

\* the entry of a role in a preset
RoleData(name, permissions, color) ==
    [name |-> name, permissions |-> permissions, color |-> color]

\* {'name': name, 'permissions': 0, 'color': '#FFFFFF'}
DefaultRoleData(name) == RoleData(name, 0, "#FFFFFF")

\* discord.Permissions(permissions=value).administrator (bit 3)
Administrator(permissions) == (permissions \div 8) % 2 = 1

\* int(color_hex.lstrip('#'), 16) returns
ColorOK(color) == color \in {"#FFFFFF", "000000"}

\* a store edited by hand: a preset with a plain role and a role with
\* the administrator permission, and a preset with an entry without a
\* name and a role whose colour is not hexadecimal
EditedStore ==
    (<<"a">> :> <<RoleData("X", 0, "#FFFFFF"), RoleData("Y", 8, "000000")>>)
    @@ (<<"s", "s">> :> <<RoleData("", 0, "#FFFFFF"),
                          RoleData("Z", 0, "red")>>)

\* role_presets.json: absent, of length 0, not JSON, the JSON text "[]",
\* or a JSON object of presets
PresetFiles ==
    {NoFile,
     [kind |-> "empty", store |-> <<>>],
     [kind |-> "malformed", store |-> <<>>],
     [kind |-> "json_list", store |-> <<>>],
     [kind |-> "json", store |-> EditedStore]}

\* load_presets raises instead of returning {}
load_presets_raising(file) ==
    IF file.kind \in {"missing", "empty"}
    THEN [type |-> "dict", value |-> <<>>]
    ELSE IF file.kind = "malformed" THEN [type |-> "raise", value |-> <<>>]
    ELSE IF file.kind = "json_list" THEN [type |-> "list", value |-> <<>>]
    ELSE [type |-> "dict", value |-> file.store]

\* load_presets: {} for a missing, an empty or an undecodable file, else
\* whatever json.loads returns
load_presets(file) ==
    IF file.kind \in {"missing", "empty", "malformed"}
    THEN [type |-> "dict", value |-> <<>>]
    ELSE IF file.kind = "json_list" THEN [type |-> "list", value |-> <<>>]
    ELSE [type |-> "dict", value |-> file.store]

\* save_presets: the file holds the JSON text of presets
save_presets(presets) == [kind |-> "json", store |-> presets]

LimpezaCommands ==
    {"criar_cargos", "preset_cargos listar", "preset_cargos salvar",
     "preset_cargos usar"}

\* the preset names given
Names == {<<"a">>, <<"A">>, <<"eszett">>, <<"S", "S">>}

\* the pieces of lista_cargos between commas and newlines
RolePieces == {" ", "X", " Y"}

Listas == SeqsUpTo(RolePieces, MaxNames)

\* the arguments <<nome, lista_cargos>> a command takes
ArgsOf(cmd) ==
    CASE cmd = "criar_cargos" -> {<<>>} \X Listas
      [] cmd = "preset_cargos salvar" -> Names \X Listas
      [] cmd = "preset_cargos usar" -> Names \X {<<>>}
      [] OTHER -> {<<>>} \X {<<>>}

Interaction(cmd, args) ==
    [command |-> cmd, nome |-> args[1], lista_cargos |-> args[2]]

\* a command is issued in a guild by a user allowed to
InitPresets ==
    /\ command \in LimpezaCommands
    /\ \E args \in ArgsOf(command) :
          /\ nome = args[1]
          /\ lista_cargos = args[2]
          /\ interactions = <<Interaction(command, args)>>
    /\ preset_file \in PresetFiles
    /\ me_admin \in BOOLEAN
    /\ me_top_role \in TopRolePositions
    /\ guild_id \in UserAdminGuildIds
    /\ guild_roles = GuildRoles
    /\ pc = "start"
    /\ role_data_list = <<>>
    /\ created_roles = <<>>
    /\ failed_roles = <<>>
    /\ reorder_success = TRUE
    /\ li = 0
    /\ pending_roles = <<>>
    /\ NoStartup
    /\ to_delete = <<>>
    /\ di = 0
    /\ deleted_count = 0
    /\ printed = <<>>
    /\ origem_id = <<>>
    /\ destino_id = <<>>
    /\ source_roles = <<>>
    /\ source_channels = <<>>
    /\ roles_to_copy = <<>>
    /\ role_mapping = <<>>
    /\ ri = 0
    /\ channels_data = <<>>
    /\ category_mapping = <<>>
    /\ ci = 0
    /\ guild_channels = <<>>
    /\ calls = <<>>
    /\ msgs = <<>>
    /\ invocation = 1
    /\ suspended = NoContext

other_programs ==
    <<scheduling, cloner_locals, to_delete, di, deleted_count,
      startup_state, guild_channels, guild_id, origem_id, destino_id,
      me_admin, me_top_role>>

\* interaction.response.defer of the four handlers
DeferLimpeza ==
    /\ command \in LimpezaCommands
    /\ pc = "start"
    /\ HasPermissions(guild_id)
    /\ msgs' = Append(msgs, Msg("defer", 0))
    /\ pc' = "body"
    /\ UNCHANGED <<other_programs, command, preset_state, cargos_locals,
                   guild_roles, calls, printed>>

\* an exception leaves the handler: the command tree logs it, nothing is
\* sent to the user
Unhandled(error) ==
    /\ printed' = Append(printed, Msg(error, 0))
    /\ pc' = "done"
    /\ UNCHANGED msgs

\* followup.send as the last statement of a handler
Reply(kind, item) ==
    /\ msgs' = Append(msgs, Msg(kind, item))
    /\ pc' = "done"
    /\ UNCHANGED printed

\* the lines of the listing: NAME (n cargos)
Listing(presets) ==
    {<<PyUpper(name), Len(presets[name])>> : name \in DOMAIN presets}

\* preset_listar_slash after the deferral
PresetListar ==
    /\ command = "preset_cargos listar"
    /\ pc = "body"
    /\ LET presets == load_presets(preset_file) IN
       IF presets.type = "raise" THEN Unhandled("Exception")
       ELSE IF presets.value = <<>> THEN Reply("no_presets", 0)
       ELSE Reply("presets", Listing(presets.value))
    /\ UNCHANGED <<other_programs, command, preset_state, cargos_locals,
                   guild_roles, calls>>

\* preset_salvar_slash from the parsing to save_presets; nothing is
\* awaited between load_presets and save_presets
PresetSalvar ==
    /\ command = "preset_cargos salvar"
    /\ pc = "body"
    /\ LET role_names == ParseLista(lista_cargos)
           presets == load_presets(preset_file)
       IN
       IF role_names = <<>>
       THEN /\ Reply("nothing_to_save", 0)
            /\ UNCHANGED <<preset_file, role_data_list>>
       ELSE IF presets.type # "dict"
       THEN /\ Unhandled(IF presets.type = "list" THEN "TypeError"
                                                  ELSE "Exception")
            /\ role_data_list' =
                  [i \in DOMAIN role_names |-> DefaultRoleData(role_names[i])]
            /\ UNCHANGED preset_file
       ELSE /\ role_data_list' =
                  [i \in DOMAIN role_names |-> DefaultRoleData(role_names[i])]
            /\ preset_file' =
                  save_presets(SetItem(presets.value, PyLower(nome),
                                       role_data_list'))
            /\ pc' = "salvar_reply"
            /\ UNCHANGED <<msgs, printed>>
    /\ UNCHANGED <<other_programs, command, interactions, nome, lista_cargos,
                   created_roles, failed_roles, reorder_success, li,
                   pending_roles, guild_roles, calls>>

\* the confirmation of preset_salvar_slash
SalvarReply ==
    /\ pc = "salvar_reply"
    /\ Reply("saved", <<PyUpper(nome), Len(role_data_list)>>)
    /\ UNCHANGED <<other_programs, command, preset_state, cargos_locals,
                   guild_roles, calls>>

\* criar_cargos_slash and preset_usar_slash from the deferral to the
\* creation loop
CargosStart ==
    /\ command \in {"criar_cargos", "preset_cargos usar"}
    /\ pc = "body"
    /\ IF command = "criar_cargos"
       THEN LET role_names == ParseLista(lista_cargos) IN
            IF role_names = <<>>
            THEN /\ Reply("no_valid_role", 0)
                 /\ UNCHANGED <<role_data_list, li>>
            ELSE /\ role_data_list' =
                       [i \in DOMAIN role_names |->
                           DefaultRoleData(role_names[i])]
                 /\ li' = 1
                 /\ pc' = "create_loop"
                 /\ UNCHANGED <<msgs, printed>>
       ELSE LET presets == load_presets(preset_file)
                key == PyLower(nome)
            IN
            IF presets.type # "dict"
            THEN /\ Unhandled(IF presets.type = "list"
                              THEN "AttributeError" ELSE "Exception")
                 /\ UNCHANGED <<role_data_list, li>>
            ELSE IF key \notin DOMAIN presets.value
                    \/ presets.value[key] = <<>>
            THEN /\ Reply("not_found", PyUpper(nome))
                 /\ UNCHANGED <<role_data_list, li>>
            ELSE /\ role_data_list' = presets.value[key]
                 /\ li' = 1
                 /\ pc' = "create_loop"
                 /\ UNCHANGED <<msgs, printed>>
    /\ created_roles' = <<>>
    /\ failed_roles' = <<>>
    /\ UNCHANGED <<other_programs, command, preset_state, reorder_success,
                   pending_roles, guild_roles, calls>>

\* why preset_usar_slash does not call create_role for an entry
\* ("": it does)
UsarSkips(role_data) ==
    IF role_data.name = "" THEN "no_name"
    ELSE IF Administrator(role_data.permissions) /\ ~me_admin
    THEN "bot_not_admin"
    ELSE IF ~ColorOK(role_data.color) THEN "error"
    ELSE ""

\* the id Discord gives the next role
NextRoleId ==
    Len(GuildRoles) + 1
    + Cardinality({k \in DOMAIN calls :
                      calls[k].op = "create_role" /\ calls[k].res = "ok"})

\* one iteration of the creation loop of criar_cargos_slash or of
\* preset_usar_slash
CreateLoop ==
    /\ pc = "create_loop"
    /\ li <= Len(role_data_list)
    /\ LET role_data == role_data_list[li]
           skip == IF command = "criar_cargos" THEN ""
                   ELSE UsarSkips(role_data)
       IN
       IF skip # ""
       THEN /\ failed_roles' = IF skip = "no_name" THEN failed_roles
                               ELSE Append(failed_roles, Msg(skip, li))
            /\ li' = li + 1
            /\ UNCHANGED <<pc, created_roles, pending_roles, calls>>
       ELSE \E res \in CreateResults :
            LET new_role == [id |-> NextRoleId, name |-> role_data.name,
                             position |-> 1]
            IN  CASE res = "ok" ->
                      /\ calls' = Append(calls,
                            Call("create_role", li, res, NoHandle,
                                 new_role.id))
                      /\ created_roles' = Append(created_roles, new_role)
                      /\ pending_roles' = Append(pending_roles, new_role)
                      /\ li' = li + 1
                      /\ UNCHANGED <<pc, failed_roles>>
                  [] res = "forbidden" ->
                      /\ calls' = Append(calls,
                            Call("create_role", li, res, NoHandle, NoHandle))
                      /\ failed_roles' =
                            Append(failed_roles, Msg("forbidden", li))
                      /\ pc' = "reorder"
                      /\ UNCHANGED <<li, created_roles, pending_roles>>
                  [] res = "other" ->
                      /\ calls' = Append(calls,
                            Call("create_role", li, res, NoHandle, NoHandle))
                      /\ failed_roles' =
                            Append(failed_roles, Msg("error", li))
                      /\ li' = li + 1
                      /\ UNCHANGED <<pc, created_roles, pending_roles>>
    /\ UNCHANGED <<other_programs, command, preset_state, role_data_list,
                   reorder_success, guild_roles, msgs, printed>>

\* the gateway event of a created role is handled: the role enters the
\* cache guild.roles, sorted right above @everyone
RoleCreateEvent ==
    /\ pending_roles # <<>>
    /\ guild_roles' = <<Head(guild_roles), Head(pending_roles)>>
                          \o Tail(guild_roles)
    /\ pending_roles' = Tail(pending_roles)
    /\ UNCHANGED <<other_programs, command, preset_state, role_data_list,
                   created_roles, failed_roles, reorder_success, li, pc,
                   calls, msgs, printed>>

Reverse(list) == [i \in 1..Len(list) |-> list[Len(list) + 1 - i]]

\* list.insert(index, x), index counted from 0 (negative: from the end)
PyInsert(list, index, x) ==
    LET n == Len(list)
        i == IF index < 0
             THEN (IF n + index < 0 THEN 0 ELSE n + index)
             ELSE (IF index > n THEN n ELSE index)
    IN  SubSeq(list, 1, i) \o <<x>> \o SubSeq(list, i + 1, n)

\* the loop that inserts the created roles, insert_position going down
RECURSIVE InsertCreated(_, _, _)
InsertCreated(list, created, insert_position) ==
    IF created = <<>> THEN list
    ELSE InsertCreated(PyInsert(list, insert_position, Head(created)),
                       Tail(created), insert_position - 1)

\* guild.me.top_role
TopRole ==
    GuildRoles[CHOOSE i \in DOMAIN GuildRoles :
                  GuildRoles[i].position = me_top_role]

\* roles_to_reorder after the insertions, lowest first; its indices are
\* the positions sent
RolesToReorder(roles, created) ==
    LET bot_role_index ==
            (CHOOSE i \in DOMAIN roles : roles[i] = TopRole) - 1
        created_ids == {created[i].id : i \in DOMAIN created}
        others == SelectSeq(roles, LAMBDA r : r.id \notin created_ids)
    IN  InsertCreated(others, Reverse(created), bot_role_index)

\* the ids of new_role_positions, by position
NewRolePositions(roles, created) ==
    LET list == RolesToReorder(roles, created) IN
    [i \in DOMAIN list |-> list[i].id]

\* evaluating the reason of edit_role_positions raises NameError: nome is
\* not a name of criar_cargos_slash
ReasonRaises(cmd) == cmd = "criar_cargos"

\* step 3 of criar_cargos_slash and preset_usar_slash
Reorder ==
    /\ \/ pc = "reorder"
       \/ pc = "create_loop" /\ li > Len(role_data_list)
    /\ pc' = "reply"
    /\ IF created_roles = <<>>
       THEN UNCHANGED <<created_roles, failed_roles, reorder_success, calls>>
       ELSE /\ created_roles' = Reverse(created_roles)
            /\ IF ReasonRaises(command)
               THEN /\ reorder_success' = FALSE
                    /\ failed_roles' =
                          Append(failed_roles, Msg("reorder_error", 0))
                    /\ UNCHANGED calls
               ELSE \E res \in CreateResults :
                    /\ calls' = Append(calls,
                          Call("edit_role_positions", 0, res, NoHandle,
                               NewRolePositions(guild_roles, created_roles)))
                    /\ reorder_success' = (res = "ok")
                    /\ failed_roles' =
                          CASE res = "ok" -> failed_roles
                            [] res = "forbidden" ->
                                Append(failed_roles,
                                       Msg("reorder_forbidden", 0))
                            [] res = "other" ->
                                Append(failed_roles, Msg("reorder_error", 0))
    /\ UNCHANGED <<other_programs, command, preset_state, role_data_list,
                   li, pending_roles, guild_roles, msgs, printed>>

\* the text of the final message
Summary ==
    [roles |-> [i \in DOMAIN created_roles |-> created_roles[i].name],
     failed |-> failed_roles,
     attention |-> ~reorder_success]

\* step 4 of criar_cargos_slash and preset_usar_slash
CargosReply ==
    /\ pc = "reply"
    /\ IF created_roles = <<>>
       THEN Reply("create_failed", Summary)
       ELSE IF command = "criar_cargos"
       THEN Reply("created_and_ordered", Summary)
       ELSE Reply("preset_applied", Summary)
    /\ UNCHANGED <<other_programs, command, preset_state, cargos_locals,
                   guild_roles, calls>>

NextPresets ==
    \/ DeferLimpeza
    \/ PresetListar
    \/ PresetSalvar
    \/ SalvarReply
    \/ CargosStart
    \/ CreateLoop
    \/ RoleCreateEvent
    \/ Reorder
    \/ CargosReply

SpecPresets == InitPresets /\ [][NextPresets]_vars

\* the handler state of one invocation of preset_salvar_slash
LimpezaContext ==
    [pc |-> pc, nome |-> nome, lista_cargos |-> lista_cargos,
     role_data_list |-> role_data_list, msgs |-> msgs]

\* a received command whose handler has not started
FreshLimpeza(args) ==
    [pc |-> "start", nome |-> args[1], lista_cargos |-> args[2],
     role_data_list |-> <<>>, msgs |-> <<>>]

\* salvar is issued twice, with names stored under different keys
InitSalvarTwo ==
    /\ command = "preset_cargos salvar"
    /\ \E a \in ArgsOf(command) : \E b \in ArgsOf(command) :
          /\ PyLower(a[1]) # PyLower(b[1])
          /\ nome = a[1]
          /\ lista_cargos = a[2]
          /\ suspended = FreshLimpeza(b)
          /\ interactions =
                <<Interaction(command, a), Interaction(command, b)>>
    /\ preset_file \in PresetFiles
    /\ me_admin = TRUE
    /\ me_top_role = 0
    /\ guild_id \in UserAdminGuildIds
    /\ guild_roles = GuildRoles
    /\ pc = "start"
    /\ role_data_list = <<>>
    /\ created_roles = <<>>
    /\ failed_roles = <<>>
    /\ reorder_success = TRUE
    /\ li = 0
    /\ pending_roles = <<>>
    /\ NoStartup
    /\ to_delete = <<>>
    /\ di = 0
    /\ deleted_count = 0
    /\ printed = <<>>
    /\ origem_id = <<>>
    /\ destino_id = <<>>
    /\ source_roles = <<>>
    /\ source_channels = <<>>
    /\ roles_to_copy = <<>>
    /\ role_mapping = <<>>
    /\ ri = 0
    /\ channels_data = <<>>
    /\ category_mapping = <<>>
    /\ ci = 0
    /\ guild_channels = <<>>
    /\ calls = <<>>
    /\ msgs = <<>>
    /\ invocation = 1
    /\ suspended # NoContext

\* at an await (defer, followup.send) the event loop resumes the other
\* handler; the file is the one both see
SwitchLimpeza ==
    /\ suspended # NoContext
    /\ suspended.pc # "done"
    /\ suspended' = LimpezaContext
    /\ invocation' = 3 - invocation
    /\ pc' = suspended.pc
    /\ nome' = suspended.nome
    /\ lista_cargos' = suspended.lista_cargos
    /\ role_data_list' = suspended.role_data_list
    /\ msgs' = suspended.msgs
    /\ UNCHANGED <<inputs, cloner_locals, apagar_locals, startup_state,
                   interactions, preset_file, created_roles, failed_roles,
                   reorder_success, li, pending_roles, guild_roles,
                   guild_channels, calls>>

NextSalvarTwo ==
    \/ DeferLimpeza
    \/ PresetSalvar
    \/ SalvarReply
    \/ SwitchLimpeza

\* two invocations of preset_salvar_slash in one event loop
SpecSalvarTwo == InitSalvarTwo /\ [][NextSalvarTwo]_vars

\* when the handling of a command has ended, the next command is received
NextInteraction ==
    /\ pc = "done"
    /\ Len(interactions) < MaxCommands
    /\ \E cmd \in LimpezaCommands : \E args \in ArgsOf(cmd) :
          /\ command' = cmd
          /\ nome' = args[1]
          /\ lista_cargos' = args[2]
          /\ interactions' = Append(interactions, Interaction(cmd, args))
    /\ pc' = "start"
    /\ msgs' = <<>>
    /\ role_data_list' = <<>>
    /\ created_roles' = <<>>
    /\ failed_roles' = <<>>
    /\ reorder_success' = TRUE
    /\ li' = 0
    /\ UNCHANGED <<other_programs, preset_file, pending_roles, guild_roles,
                   calls, printed>>

NextSession ==
    \/ NextPresets
    \/ NextInteraction

\* a sequence of commands, handled one after the other
SpecSession == InitPresets /\ [][NextSession]_vars

----------------------------------------------------------------------------
(* Vocabulary of the properties *)

ReadOps == {"GET_roles", "GET_channels"}

ChannelCreateOps ==
    {"create_text_channel", "create_voice_channel", "create_stage_channel"}

CreateOps == {"create_role", "create_category"} \cup ChannelCreateOps

\* the write pass a create call belongs to
PassOf(op) ==
    CASE op = "create_role" -> "roles"
      [] op = "create_category" -> "categories"
      [] OTHER -> "channels"

ErrorKinds ==
    {"roles_read_failed", "channels_read_failed", "invalid_id",
     "unexpected_error"}

LastMsg == msgs[Len(msgs)]

\* the handler ended in except ValueError while processing loop item i
RaisedAt(i) == pc = "done" /\ msgs # <<>> /\ LastMsg = Msg("invalid_id", i)

\* the calls issued after the source channels were read
ChannelPhaseCalls ==
    {k \in DOMAIN calls :
        \E g \in DOMAIN calls : g < k /\ calls[g].op = "GET_channels"}

CategoryItems == {i \in DOMAIN channels_data : channels_data[i].type = 4}

ChannelItems == {i \in DOMAIN channels_data : channels_data[i].type # 4}

\* j is the first item of S after i
IsNextItem(S, i, j) == j \in S /\ j > i /\ \A h \in S : h > i => j <= h

\* the loops reached item j: a call was issued for it, or its processing
\* raised
RoleAttempted(j) ==
    \/ \E k \in DOMAIN calls : calls[k].op = "create_role" /\ calls[k].item = j
    \/ RaisedAt(j) /\ ChannelPhaseCalls = {}

CategoryAttempted(j) ==
    \/ \E k \in DOMAIN calls :
            calls[k].op = "create_category" /\ calls[k].item = j
    \/ RaisedAt(j)

ChannelAttempted(j) ==
    \/ \E k \in ChannelPhaseCalls :
            /\ calls[k].op \in ChannelCreateOps \cup {"sleep"}
            /\ calls[k].item = j
    \/ RaisedAt(j)

\* pass 2 has gone through item i
ReachedInChannelPass(i) ==
    \/ pc = "chan_loop" /\ ci > i
    \/ /\ ci >= i
       /\ \/ pc = "channels_end"
          \/ /\ pc \in {"finish", "done"}
             /\ \E m \in DOMAIN msgs : msgs[m].kind = "channels_copied"

\* old ids of the categories created by this invocation
CreatedCategoryIds ==
    {PyInt(channels_data[calls[k].item].id) :
        k \in {h \in DOMAIN calls :
                  calls[h].op = "create_category" /\ calls[h].res = "ok"}}

\* the record's parent_id names a category created by this invocation
ParentCreated(channel) ==
    /\ Truthy(channel.parent_id)
    /\ PyIntOK(channel.parent_id)
    /\ PyInt(channel.parent_id) \in CreatedCategoryIds

----------------------------------------------------------------------------
(* Properties *)

DestinationMissing == PyIntOK(destino_id) /\ PyInt(destino_id) \notin BotGuildIds

BotLacksAdmin ==
    PyIntOK(destino_id) /\ PyInt(destino_id) \in BotGuildIds /\ ~me_admin

\* C1: when the destination guild is not found or the bot is not
\* administrator there, the command answers with the failure message and
\* ends; no read of the source and no create call is ever issued.
C1_FailFast ==
    (DestinationMissing \/ BotLacksAdmin) =>
        /\ calls = <<>>
        /\ guild_roles = <<>>
        /\ guild_channels = <<>>
        /\ pc \in {"start", "rejected", "check", "done"}
        /\ pc = "done" =>
              msgs = <<Msg("defer", 0),
                       Msg(IF DestinationMissing THEN "dest_not_found"
                           ELSE "not_admin", 0)>>

C1_Witness == BotLacksAdmin /\ pc = "done"

\* a source role that the specification excludes from cloning
Excluded(role) == role.managed \/ role.name = "@everyone"

\* C2: the id of a managed or @everyone source role is never a key of
\* role_mapping, and no create_role call is issued for such a role.
C2_ExcludedRolesNeverCloned ==
    /\ \A i \in DOMAIN source_roles :
          (Excluded(source_roles[i]) /\ PyIntOK(source_roles[i].id)) =>
              PyInt(source_roles[i].id) \notin DOMAIN role_mapping
    /\ \A k \in DOMAIN calls :
          calls[k].op = "create_role" =>
              ~Excluded(roles_to_copy[calls[k].item])
    /\ \A n \in DOMAIN guild_roles :
          \A i \in DOMAIN source_roles :
              (PyIntOK(source_roles[i].id)
                 /\ PyInt(source_roles[i].id) = guild_roles[n].old) =>
                  ~Excluded(source_roles[i])

C2_Witness ==
    /\ pc = "get_channels"
    /\ DOMAIN role_mapping # {}
    /\ \E i \in DOMAIN source_roles : Excluded(source_roles[i])

\* C3: in the trace of calls every create_category call comes before every
\* call that creates a non-category channel.
C3_CategoriesBeforeChannels ==
    \A i, j \in DOMAIN calls :
        (calls[i].op \in ChannelCreateOps /\ calls[j].op = "create_category")
            => j < i

\* a channel sorted before a category, the category creation failed, and
\* both were attempted
C3_Witness ==
    \E i, j \in DOMAIN channels_data :
        /\ i < j
        /\ channels_data[i].type # 4
        /\ channels_data[j].type = 4
        /\ \E k \in DOMAIN calls :
              calls[k].op \in ChannelCreateOps /\ calls[k].item = i
        /\ \E k \in DOMAIN calls :
              /\ calls[k].op = "create_category"
              /\ calls[k].item = j
              /\ calls[k].res # "ok"

\* C4 (as claimed): after a read of the source that does not succeed, no
\* further read and no create call is issued, no success message is sent
\* and exactly one error is reported.
C4_ReadErrorAbortsClone ==
    \A k \in DOMAIN calls :
        (calls[k].op \in ReadOps /\ calls[k].res # "200") =>
            /\ \A j \in DOMAIN calls :
                  j > k => calls[j].op \notin ReadOps \cup CreateOps
            /\ \A m \in DOMAIN msgs : msgs[m].kind # "success"
            /\ pc = "done" =>
                  Cardinality({m \in DOMAIN msgs :
                                  msgs[m].kind \in ErrorKinds}) = 1

\* C5: after a create call that failed with Forbidden, no later create call
\* belongs to the same pass.
C5_ForbiddenHaltsPass ==
    \A i, j \in DOMAIN calls :
        (/\ i < j
         /\ calls[i].op \in CreateOps
         /\ calls[i].res = "forbidden"
         /\ calls[j].op \in CreateOps)
            => PassOf(calls[j].op) # PassOf(calls[i].op)

\* Forbidden on a role that is not the last one, and the command has ended
C5_Witness ==
    /\ pc = "done"
    /\ \E k \in DOMAIN calls :
          /\ calls[k].op = "create_role"
          /\ calls[k].res = "forbidden"
          /\ calls[k].item < Len(roles_to_copy)

\* C6: a create call that fails with an error other than Forbidden is
\* reported for its item, and the pass goes on: the next item of the same
\* pass is attempted (unless the loop has not got to it yet).  Whether the
\* items after that one are attempted depends on that item in turn.
C6_OtherErrorContinues ==
    \A k \in DOMAIN calls :
        (calls[k].op \in CreateOps /\ calls[k].res = "other") =>
            LET i == calls[k].item
                pass == PassOf(calls[k].op)
            IN  CASE pass = "roles" ->
                      /\ \E m \in DOMAIN msgs : msgs[m] = Msg("role_error", i)
                      /\ \A j \in DOMAIN roles_to_copy :
                            IsNextItem(DOMAIN roles_to_copy, i, j) =>
                                \/ RoleAttempted(j)
                                \/ pc = "role_loop" /\ ri <= j
                  [] pass = "categories" ->
                      /\ \E m \in DOMAIN msgs :
                            msgs[m] = Msg("category_error", i)
                      /\ \A j \in CategoryItems :
                            IsNextItem(CategoryItems, i, j) =>
                                \/ CategoryAttempted(j)
                                \/ pc = "cat_loop" /\ ci <= j
                  [] pass = "channels" ->
                      /\ \E m \in DOMAIN msgs :
                            msgs[m] = Msg("channel_error", i)
                      /\ \A j \in ChannelItems :
                            IsNextItem(ChannelItems, i, j) =>
                                \/ ChannelAttempted(j)
                                \/ pc = "chan_loop" /\ ci <= j

\* a role failed with another error and a later role was created
C6_Witness ==
    \E k, h \in DOMAIN calls :
        /\ k < h
        /\ calls[k].op = "create_role"
        /\ calls[k].res = "other"
        /\ calls[h].op = "create_role"
        /\ calls[h].res = "ok"
        /\ calls[h].item > calls[k].item

\* C7: Forbidden ends its own pass only.  After Forbidden in the role pass
\* the source channels are read and, when that read succeeds, the category
\* pass runs (its first category is attempted); after Forbidden in the
\* category pass the channel pass runs (its first channel is attempted).
C7_ForbiddenAbortsOnlyItsPass ==
    \A k \in DOMAIN calls :
        /\ (calls[k].op = "create_role" /\ calls[k].res = "forbidden") =>
              /\ \/ pc \in {"roles_end", "get_channels"}
                 \/ \E g \in DOMAIN calls :
                        g > k /\ calls[g].op = "GET_channels"
              /\ \A g \in DOMAIN calls :
                    (calls[g].op = "GET_channels" /\ calls[g].res = "200") =>
                        \A j \in CategoryItems :
                            IsNextItem(CategoryItems, 0, j) =>
                                \/ CategoryAttempted(j)
                                \/ pc = "cat_loop" /\ ci <= j
        /\ (calls[k].op = "create_category" /\ calls[k].res = "forbidden") =>
              \A j \in ChannelItems :
                  IsNextItem(ChannelItems, 0, j) =>
                      \/ ChannelAttempted(j)
                      \/ pc = "chan_loop" /\ ci <= j

\* Forbidden in the role pass and in the category pass, and still a
\* category and a channel creation were issued
C7_Witness ==
    /\ pc = "done"
    /\ \E k \in DOMAIN calls :
          calls[k].op = "create_role" /\ calls[k].res = "forbidden"
    /\ \E k \in DOMAIN calls :
          calls[k].op = "create_category" /\ calls[k].res = "forbidden"
    /\ \E k \in DOMAIN calls : calls[k].op \in ChannelCreateOps

\* C8 (as claimed): a role or a category whose id does not parse is only
\* skipped.  When the command has ended, a role with such an id has not
\* kept the source channels from being read, and a category with such an
\* id has not kept the command from ending with its success message.
C8_BadIdentifierSkipsOnlyItem ==
    pc = "done" =>
        /\ (\E i \in DOMAIN roles_to_copy : ~PyIntOK(roles_to_copy[i].id)) =>
              \E k \in DOMAIN calls : calls[k].op = "GET_channels"
        /\ (\E j \in CategoryItems : ~PyIntOK(channels_data[j].id)) =>
              LastMsg.kind = "success"

\* C9: a channel of a created type whose parent_id does not name a category
\* created by this invocation (failed, never attempted, absent or
\* unparseable) gets its create call when pass 2 goes through it, with no
\* category.
C9_OrphanChannelCreatedWithoutParent ==
    \A i \in ChannelItems :
        LET channel == channels_data[i] IN
        (/\ channel.type \in {0, 2, 5, 13}
         /\ ~ParentCreated(channel)
         /\ ReachedInChannelPass(i)) =>
            /\ \E k \in DOMAIN calls :
                  calls[k].op \in ChannelCreateOps /\ calls[k].item = i
            /\ \A k \in DOMAIN calls :
                  (calls[k].op \in ChannelCreateOps /\ calls[k].item = i) =>
                      /\ calls[k].category = NoHandle
                      /\ calls[k].res = "ok" =>
                            guild_channels[calls[k].new].category = NoHandle

\* the category named by a channel's parent_id failed, and the channel was
\* created
C9_Witness ==
    /\ pc = "done"
    /\ \E c, k \in DOMAIN calls :
          /\ calls[c].op = "create_category"
          /\ calls[c].res # "ok"
          /\ calls[k].op \in ChannelCreateOps
          /\ calls[k].res = "ok"
          /\ channels_data[calls[k].item].parent_id =
                channels_data[calls[c].item].id

\* C10: a channel whose parent_id names a category created by this
\* invocation is created in the handle that create_category returned for
\* that old id (the one category_mapping records), by an earlier call.
C10_ChildUsesNewCategoryHandle ==
    \A k \in DOMAIN calls :
        (/\ calls[k].op \in ChannelCreateOps
         /\ ParentCreated(channels_data[calls[k].item])) =>
            LET parent == PyInt(channels_data[calls[k].item].parent_id) IN
            \E j \in DOMAIN calls :
                /\ j < k
                /\ calls[j].op = "create_category"
                /\ calls[j].res = "ok"
                /\ PyInt(channels_data[calls[j].item].id) = parent
                /\ calls[k].category = calls[j].new
                /\ category_mapping[parent] = calls[j].new
                /\ guild_channels[calls[j].new].kind = "category"
                /\ calls[k].res = "ok" =>
                      guild_channels[calls[k].new].category = calls[j].new

C10_Witness ==
    \E k \in DOMAIN calls :
        /\ calls[k].op \in ChannelCreateOps
        /\ calls[k].res = "ok"
        /\ ParentCreated(channels_data[calls[k].item])

\* the calls that created a category or a channel
CreatedChannelCalls ==
    {k \in DOMAIN calls :
        /\ calls[k].op \in {"create_category"} \cup ChannelCreateOps
        /\ calls[k].res = "ok"}

\* the source overwrites of the item a call was issued for
SourceOverwrites(k) == channels_data[calls[k].item].permission_overwrites

\* the overwrites the object created by call k carries on the destination
CreatedOverwrites(k) == guild_channels[calls[k].new].overwrites

\* entry o is role-scoped and role_mapping translates its id
Translated(o) ==
    o.type = 0 /\ PyIntOK(o.id) /\ PyInt(o.id) \in DOMAIN role_mapping

\* the handler state of invocation i
Inv(i) == IF invocation = i THEN Context ELSE suspended

Invocations == {1, 2}

\* the handles an invocation got from its successful calls of the given
\* operations
OwnHandles(ctx, ops) ==
    {ctx.calls[k].new :
        k \in {h \in DOMAIN ctx.calls :
                  ctx.calls[h].op \in ops /\ ctx.calls[h].res = "ok"}}

OwnRoles(ctx) == OwnHandles(ctx, {"create_role"})

OwnCategories(ctx) == OwnHandles(ctx, {"create_category"})

OwnChannels(ctx) == OwnHandles(ctx, {"create_category"} \cup ChannelCreateOps)

\* the invocation ran to its success message and every call it made
\* succeeded
AllSucceeded(ctx) ==
    /\ ctx.pc = "done"
    /\ ctx.msgs # <<>>
    /\ ctx.msgs[Len(ctx.msgs)].kind = "success"
    /\ \A k \in DOMAIN ctx.calls : ctx.calls[k].res \in {"ok", "200"}

\* the records of the channels body that a create call exists for
CreatedItems(data) ==
    {i \in DOMAIN data : data[i].type = 4 \/ CreateOp(data[i].type) # "none"}

\* the handles invocation ctx created for item i of its channels_data
HandlesForItem(ctx, i) ==
    {ctx.calls[k].new :
        k \in {h \in DOMAIN ctx.calls :
                  /\ ctx.calls[h].op \in {"create_category"}
                                            \cup ChannelCreateOps
                  /\ ctx.calls[h].res = "ok"
                  /\ ctx.calls[h].item = i}}

\* the roles of the destination made from source role r
CopiesOfRole(r) ==
    {n \in DOMAIN guild_roles :
        guild_roles[n] = [name |-> r.name, old |-> PyInt(r.id)]}

\* C11: every entry of the overwrites a created category or channel
\* carries comes from a role-scoped entry (type 0) of its source record:
\* its key is the new role of that entry's id and its value that entry's
\* allow/deny pair.  A member-scoped entry contributes nothing, also when
\* its id is the id of a cloned role.
C11_MemberOverwritesNeverMapped ==
    \A k \in CreatedChannelCalls :
        \A h \in DOMAIN CreatedOverwrites(k) :
            \E n \in DOMAIN SourceOverwrites(k) :
                LET o == SourceOverwrites(k)[n] IN
                /\ Translated(o)
                /\ role_mapping[PyInt(o.id)] = h
                /\ CreatedOverwrites(k)[h] = <<PyInt(o.allow), PyInt(o.deny)>>

\* a channel was created from a record whose only overwrite is one of a
\* member with the id of a cloned role
C11_Witness ==
    \E k \in CreatedChannelCalls :
        /\ SourceOverwrites(k) # <<>>
        /\ \A n \in DOMAIN SourceOverwrites(k) :
              LET o == SourceOverwrites(k)[n] IN
              o.type = 1 /\ PyInt(o.id) \in DOMAIN role_mapping
        /\ CreatedOverwrites(k) = <<>>

\* entry o is role-scoped and its id has no entry in role_mapping
Unmapped(o) ==
    o.type = 0 /\ ~(PyIntOK(o.id) /\ PyInt(o.id) \in DOMAIN role_mapping)

\* the new roles the entries of a source record translate to
TranslatedRoles(overwrites) ==
    {role_mapping[PyInt(overwrites[n].id)] :
        n \in {m \in DOMAIN overwrites : Translated(overwrites[m])}}

\* C12 (as claimed): a category (with a parseable id) or a channel of a
\* created type that carries a role-scoped overwrite whose id has no entry
\* in role_mapping gets its create call once its loop gets to it -- nothing
\* is raised on it -- and what is created carries no entry for that
\* overwrite.
C12_UnmappedOverwriteOmitted ==
    \A i \in DOMAIN channels_data :
        LET channel == channels_data[i]
            overwrites == channel.permission_overwrites
        IN
        (/\ \E n \in DOMAIN overwrites : Unmapped(overwrites[n])
         /\ channel.type = 4 => PyIntOK(channel.id)
         /\ channel.type # 4 => CreateOp(channel.type) # "none") =>
            /\ ~RaisedAt(i)
            /\ (IF channel.type = 4 THEN CategoryAttempted(i)
                                    ELSE ChannelAttempted(i)) =>
                  \E k \in DOMAIN calls :
                      calls[k].op \in CreateOps /\ calls[k].item = i
            /\ \A k \in CreatedChannelCalls :
                  calls[k].item = i =>
                      DOMAIN CreatedOverwrites(k) \subseteq
                          TranslatedRoles(overwrites)

\* the position of the source role a create_role call was issued for (the
\* key of the sort: 0 when the record has none)
RolePositionOf(k) == GetOr(roles_to_copy[calls[k].item].position, 0)

\* C13: the create_role calls are issued in non-decreasing order of the
\* position of their source roles, a missing position counting as 0.
C13_RolesCreatedByPosition ==
    \A i, j \in DOMAIN calls :
        (/\ i < j
         /\ calls[i].op = "create_role"
         /\ calls[j].op = "create_role") =>
            RolePositionOf(i) <= RolePositionOf(j)

\* the source lists a role with a position before one without, and both
\* were sent to create_role, the one without a position first
C13_Witness ==
    /\ Len(source_roles) = 2
    /\ source_roles[1].position = <<1>>
    /\ source_roles[2].position = <<>>
    /\ \E i, j \in DOMAIN calls :
          /\ i < j
          /\ calls[i].op = "create_role"
          /\ calls[j].op = "create_role"
          /\ roles_to_copy[calls[i].item] = source_roles[2]
          /\ roles_to_copy[calls[j].item] = source_roles[1]

\* C14: when the clone has run twice on the same source and destination
\* and every call of both runs succeeded, the destination holds twice the
\* roles and twice the categories and channels of one run: every cloned
\* role has two copies, and every created record has one object of its own
\* from each run.
C14_SecondRunDuplicates ==
    (AllSucceeded(Inv(1)) /\ AllSucceeded(Inv(2))) =>
        /\ Inv(1).roles_to_copy = Inv(2).roles_to_copy
        /\ Inv(1).channels_data = Inv(2).channels_data
        /\ Len(guild_roles) = 2 * Len(roles_to_copy)
        /\ Len(guild_channels) = 2 * Cardinality(CreatedItems(channels_data))
        /\ \A r \in DOMAIN roles_to_copy :
              Cardinality(CopiesOfRole(roles_to_copy[r])) = 2
        /\ \A i \in CreatedItems(channels_data) :
              /\ Cardinality(HandlesForItem(Inv(1), i)) = 1
              /\ Cardinality(HandlesForItem(Inv(2), i)) = 1
              /\ HandlesForItem(Inv(1), i) \cap HandlesForItem(Inv(2), i) = {}
              /\ HandlesForItem(Inv(1), i) \cup HandlesForItem(Inv(2), i)
                    \subseteq DOMAIN guild_channels

\* both runs succeeded, and the second created its first role and its
\* first channel after the first run had created all of its own
C14_Witness ==
    /\ AllSucceeded(Inv(1))
    /\ AllSucceeded(Inv(2))
    /\ roles_to_copy # <<>>
    /\ CreatedItems(channels_data) # {}
    /\ \A a \in OwnRoles(Inv(1)) : \A b \in OwnRoles(Inv(2)) : a < b
    /\ \A a \in OwnChannels(Inv(1)) : \A b \in OwnChannels(Inv(2)) : a < b

\* the message that reports a failed create call of a pass, and the message
\* that closes the pass
ErrorKindOf(op) ==
    CASE op = "create_role" -> "role_error"
      [] op = "create_category" -> "category_error"
      [] OTHER -> "channel_error"

ClosingKindOf(op) ==
    IF op = "create_role" THEN "roles_copied" ELSE "channels_copied"

\* C15 (as claimed): when the clone ends with its success message after
\* both reads of the source succeeded, every create call that failed with
\* an error other than Forbidden is reported in the closing messages: the
\* report of the failed item is sent with or after the message that closes
\* its pass, not while the pass runs.
C15_FailuresReportedInSummary ==
    (/\ pc = "done"
     /\ msgs # <<>>
     /\ LastMsg.kind = "success"
     /\ \A k \in DOMAIN calls : calls[k].op \in ReadOps => calls[k].res = "200")
    =>  \A k \in DOMAIN calls :
            (calls[k].op \in CreateOps /\ calls[k].res = "other") =>
                \E e, m \in DOMAIN msgs :
                    /\ e <= m
                    /\ msgs[e].kind = ClosingKindOf(calls[k].op)
                    /\ msgs[m].item = calls[k].item
                    /\ msgs[m].kind \in {ErrorKindOf(calls[k].op),
                                         ClosingKindOf(calls[k].op),
                                         "success"}

\* C16 (as claimed, for the deletion loops): when apagar_canais or
\* apagar_cargos has ended, its last message states the number of deleted
\* items, and every item whose deletion failed has been reported to the
\* user in a message.
C16_LoopsReportCountAndFailures ==
    (command \in ApagarCommands /\ pc = "done") =>
        /\ LastMsg =
              Msg("deleted",
                  Cardinality({k \in DOMAIN calls : calls[k].res = "ok"}))
        /\ \A k \in DOMAIN calls :
              calls[k].res # "ok" =>
                  \E m \in DOMAIN msgs :
                      /\ msgs[m].kind \in {"delete_forbidden", "delete_error"}
                      /\ msgs[m].item = calls[k].item

\* the successful create_role calls of the role pass
RolePassCalls ==
    {k \in DOMAIN calls : calls[k].op = "create_role" /\ calls[k].res = "ok"}

\* the old id a successful create_role call was issued for
OldRoleIdOf(k) == PyInt(roles_to_copy[calls[k].item].id)

\* the mapping the role pass produced: old id -> handle create_role returned
ProducedRoleMapping ==
    [id \in {OldRoleIdOf(k) : k \in RolePassCalls} |->
        calls[CHOOSE k \in RolePassCalls : OldRoleIdOf(k) = id].new]

\* what the overwrites of a source record translate to under mapping rm
ExpectedOverwrites(overwrites, rm) ==
    LET roles == {n \in DOMAIN overwrites :
                     /\ overwrites[n].type = 0
                     /\ PyIntOK(overwrites[n].id)
                     /\ PyInt(overwrites[n].id) \in DOMAIN rm}
        last(h) == CHOOSE n \in roles :
                      /\ rm[PyInt(overwrites[n].id)] = h
                      /\ \A m \in roles :
                            rm[PyInt(overwrites[m].id)] = h => m <= n
    IN  [h \in {rm[PyInt(overwrites[n].id)] : n \in roles} |->
            <<PyInt(overwrites[last(h)].allow),
              PyInt(overwrites[last(h)].deny)>>]

\* C17: every create_role call comes before the read of the source
\* channels and before every call that creates a category or a channel;
\* from that read on role_mapping is the mapping the role pass produced
\* (old id -> the handle its create_role call returned), and the
\* overwrites of every created category or channel are the translation of
\* its source overwrites under that mapping.
C17_RolePassFeedsChannelPass ==
    /\ \A i, j \in DOMAIN calls :
          (/\ calls[i].op = "create_role"
           /\ calls[j].op \in {"GET_channels", "create_category"}
                                \cup ChannelCreateOps) => i < j
    /\ (\E g \in DOMAIN calls : calls[g].op = "GET_channels") =>
          /\ DOMAIN role_mapping = DOMAIN ProducedRoleMapping
          /\ \A id \in DOMAIN role_mapping :
                role_mapping[id] = ProducedRoleMapping[id]
          /\ \A k \in CreatedChannelCalls :
                LET expected == ExpectedOverwrites(SourceOverwrites(k),
                                                   ProducedRoleMapping)
                IN  /\ DOMAIN CreatedOverwrites(k) = DOMAIN expected
                    /\ \A h \in DOMAIN expected :
                          CreatedOverwrites(k)[h] = expected[h]

\* a category or channel was created with an overwrite translated through
\* the handle of a role created by the role pass
C17_Witness ==
    \E k \in CreatedChannelCalls :
        \E h \in DOMAIN CreatedOverwrites(k) :
            \E r \in RolePassCalls : calls[r].new = h /\ r < k

\* C18 (as claimed): between any two create calls, whether the first
\* succeeded or failed, there is a sleep.
C18_DelayAfterEveryCreate ==
    \A i, j \in DOMAIN calls :
        (i < j /\ calls[i].op \in CreateOps /\ calls[j].op \in CreateOps) =>
            \E d \in DOMAIN calls : i < d /\ d < j /\ calls[d].op = "sleep"

\* C18, the part that holds of the code: a create call that succeeded is
\* followed at once by a sleep.  (After a failed create call the next one
\* follows with none.)
C18_DelayAfterSuccessfulCreate ==
    \A i \in DOMAIN calls :
        (calls[i].op \in CreateOps /\ calls[i].res = "ok") =>
            /\ i < Len(calls)
            /\ calls[i + 1].op = "sleep"
            /\ calls[i + 1].item = calls[i].item

\* a successful creation, its sleep, then the next create call; and a
\* failed creation followed by a create call with no sleep between
C18_Witness ==
    /\ \E i \in DOMAIN calls :
          /\ i + 2 <= Len(calls)
          /\ calls[i].op \in CreateOps
          /\ calls[i].res = "ok"
          /\ calls[i + 2].op \in CreateOps
    /\ \E i \in DOMAIN calls :
          /\ i + 1 <= Len(calls)
          /\ calls[i].op \in CreateOps
          /\ calls[i].res = "other"
          /\ calls[i + 1].op \in CreateOps

\* the invoking user holds administrator in the destination guild
UserAdminOnDestination ==
    PyIntOK(destino_id) /\ PyInt(destino_id) \in UserAdminGuildIds

\* C19 (as claimed): a create call is issued on the destination only when
\* the invoking user holds administrator there; a user who is
\* administrator only where the command is issued causes none.
C19_UserAdminOnDestinationRequired ==
    (\E k \in DOMAIN calls : calls[k].op \in CreateOps) =>
        UserAdminOnDestination

\* the handles a mapping resolves to
Handles(mapping) == {mapping[k] : k \in DOMAIN mapping}

\* the channels and categories an invocation created, as the destination
\* holds them
OwnObjects(ctx) == {guild_channels[h] : h \in OwnChannels(ctx)}

\* an invocation's mappings hold handles of its own calls only, and what
\* it created is bound to its own roles and its own categories only
ResolvesThroughOwnHandles(ctx) ==
    /\ Handles(ctx.role_mapping) \subseteq OwnRoles(ctx)
    /\ Handles(ctx.category_mapping) \subseteq OwnCategories(ctx)
    /\ \A object \in OwnObjects(ctx) :
          /\ DOMAIN object.overwrites \subseteq OwnRoles(ctx)
          /\ object.category \in OwnCategories(ctx) \cup {NoHandle}

\* no handle is created by both invocations
HandlesDisjoint ==
    /\ OwnRoles(Inv(1)) \cap OwnRoles(Inv(2)) = {}
    /\ OwnChannels(Inv(1)) \cap OwnChannels(Inv(2)) = {}

\* every entry of the mapping before the step is an entry after it
Grows(before, after) ==
    /\ DOMAIN before \subseteq DOMAIN after
    /\ \A k \in DOMAIN before : after[k] = before[k]

\* C20: with two invocations interleaved on one destination, each
\* resolves overwrites and parent categories only through handles it
\* created itself, no step of one touches a mapping of the other, and
\* each mapping only grows.
C20_MappingsPerInvocation ==
    /\ [](HandlesDisjoint /\ \A i \in Invocations :
                                ResolvesThroughOwnHandles(Inv(i)))
    /\ [][\A i \in Invocations :
            /\ Grows(Inv(i).role_mapping, Inv(i)'.role_mapping)
            /\ Grows(Inv(i).category_mapping, Inv(i)'.category_mapping)
            /\ (invocation' = invocation /\ i # invocation) =>
                  /\ Inv(i)'.role_mapping = Inv(i).role_mapping
                  /\ Inv(i)'.category_mapping = Inv(i).category_mapping]_vars

\* both invocations hold a role of their own while neither has finished,
\* and the one running has created a channel under its own category with
\* an overwrite for its own role
C20_Witness ==
    /\ \A i \in Invocations :
          /\ Inv(i).role_mapping # <<>>
          /\ Inv(i).pc \notin {"done", "rejected"}
    /\ \E h \in OwnChannels(Context) :
          /\ guild_channels[h].category \in OwnCategories(Context)
          /\ DOMAIN guild_channels[h].overwrites # {}
    /\ \E a \in OwnRoles(Inv(1)) : \E b \in OwnRoles(Inv(2)) : b < a

\* the calls of pass 2 made for item i of channels_data
ChannelCallsFor(i) ==
    {k \in DOMAIN calls : calls[k].op \in ChannelCreateOps
                            /\ calls[k].item = i}

\* the reports of pass 2 about item i
ChannelReportsFor(i) ==
    {m \in DOMAIN msgs :
        /\ msgs[m].kind \in {"channel_forbidden", "channel_error"}
        /\ msgs[m].item = i}

\* the records of channels_data the channel loop has dispatched
Dispatched ==
    IF pc = "chan_loop"
    THEN {i \in 1..(ci - 1) : channels_data[i].type # 4}
    ELSE {}

\* the calls item i may be dispatched to, by its type
DispatchOps(i) ==
    CASE channels_data[i].type \in {0, 5} -> {"create_text_channel"}
      [] channels_data[i].type = 2 -> {"create_voice_channel"}
      [] channels_data[i].type = 13 -> {"create_stage_channel"}
      [] OTHER -> {}

\* C21: every non-category record the channel loop has dispatched got
\* exactly one creation call, chosen by its type (text and announcement:
\* create_text_channel, voice: create_voice_channel, stage:
\* create_stage_channel); a record of any other type got no creation call
\* and no error report.  No record ever gets a call of another kind or a
\* second call.
C21_DispatchByType ==
    /\ \A k \in DOMAIN calls :
          calls[k].op \in ChannelCreateOps =>
              /\ calls[k].op \in DispatchOps(calls[k].item)
              /\ ChannelCallsFor(calls[k].item) = {k}
    /\ \A i \in Dispatched :
          IF DispatchOps(i) = {}
          THEN ChannelCallsFor(i) = {} /\ ChannelReportsFor(i) = {}
          ELSE Cardinality(ChannelCallsFor(i)) = 1

\* the loop has dispatched an announcement channel and a forum channel
C21_Witness ==
    /\ \E i \in Dispatched :
          /\ channels_data[i].type = 5
          /\ \E k \in ChannelCallsFor(i) : calls[k].res = "ok"
    /\ \E i \in Dispatched : channels_data[i].type = 15

\* the create_role calls of this invocation that succeeded
SucceededRoleCalls ==
    {k \in DOMAIN calls : calls[k].op = "create_role" /\ calls[k].res = "ok"}

\* the source role a create_role call was made for
RoleOfCall(k) == roles_to_copy[calls[k].item]

\* C25: at every point the keys of role_mapping are exactly the ids of
\* the source roles whose create_role call has succeeded so far, each
\* mapped to the handle that call returned; a role whose creation failed
\* or was not attempted is not a key.
C25_RoleMappingIsSucceededCreates ==
    /\ DOMAIN role_mapping =
          {PyInt(RoleOfCall(k).id) : k \in SucceededRoleCalls}
    /\ \A k \in SucceededRoleCalls :
          role_mapping[PyInt(RoleOfCall(k).id)] = calls[k].new
    /\ \A r \in DOMAIN roles_to_copy :
          (~\E k \in SucceededRoleCalls : calls[k].item = r) =>
              ~(/\ PyIntOK(roles_to_copy[r].id)
                /\ PyInt(roles_to_copy[r].id) \in DOMAIN role_mapping)

\* inside the role loop: one role was created and is a key, the creation
\* of another failed
C25_Witness ==
    /\ pc = "role_loop"
    /\ SucceededRoleCalls # {}
    /\ role_mapping # <<>>
    /\ \E k \in DOMAIN calls :
          calls[k].op = "create_role" /\ calls[k].res = "other"

\* the role a delete call of /apagar_cargos was issued for
DeletedRoleOf(k) == to_delete[calls[k].item]

ModuleCommands ==
    UNION {ModuleStatements[i].registers : i \in DOMAIN ModuleStatements}

\* the statement about to be executed calls bot.run
AboutToRun ==
    /\ stmt # 0
    /\ \/ ModuleStatements[stmt].kind = "run"
       \/ ModuleStatements[stmt].kind = "main" /\ token # <<>>

RunCalls == {k \in DOMAIN calls : calls[k].op = "run"}

\* C29: the bot is run at most once, only after the bot object is
\* constructed and every command and the preset group are registered,
\* and only with a token; with no token the program ends having printed
\* the token error and without a call of run.
C29_RunOnceAfterSetup ==
    /\ Cardinality(RunCalls) <= 1
    /\ AboutToRun =>
          /\ "bot" \in module_globals
          /\ ModuleCommands \subseteq tree_commands
          /\ token # <<>>
    /\ (stmt = 0 /\ token = <<>>) =>
          /\ \E m \in DOMAIN printed : printed[m].kind = "token_undefined"
          /\ RunCalls = {}

\* the handling of the command has ended
CommandEnded == pc \in {"done", "rejected"}

\* C24: the first message of every invocation is the deferred
\* acknowledgment, nothing is sent before it, and when the handling of
\* the command has ended, on whatever path, at least one follow-up
\* message was sent after it.
C24_DeferThenFollowUp ==
    /\ \A m \in DOMAIN msgs : msgs[m].kind = "defer" <=> m = 1
    /\ CommandEnded => Len(msgs) >= 2

UnusableKinds == {"missing", "empty", "malformed"}

PresetCommands ==
    {"preset_cargos listar", "preset_cargos salvar", "preset_cargos usar"}

\* the file the command found was missing, empty or malformed (after
\* salvar it holds the one preset just saved)
FoundUnusable ==
    \/ preset_file.kind \in UnusableKinds
    \/ /\ command = "preset_cargos salvar"
       /\ role_data_list # <<>>
       /\ preset_file =
             save_presets(SetItem(<<>>, PyLower(nome), role_data_list))

\* the reply each command gives on an empty store
ReplyOnEmptyStore ==
    CASE command = "preset_cargos listar" -> {"no_presets"}
      [] command = "preset_cargos usar" -> {"not_found"}
      [] command = "preset_cargos salvar" -> {"saved", "nothing_to_save"}
      [] OTHER -> {}

\* C22: load_presets returns the empty mapping for a missing, an empty
\* and a malformed file, and listar, salvar and usar then end with their
\* normal reply and without an exception.
C22_UnusableFileIsEmptyStore ==
    /\ preset_file.kind \in UnusableKinds =>
          load_presets(preset_file) = [type |-> "dict", value |-> <<>>]
    /\ (command \in PresetCommands /\ pc = "done" /\ FoundUnusable) =>
          /\ printed = <<>>
          /\ Len(msgs) = 2
          /\ msgs[1].kind = "defer"
          /\ msgs[2].kind \in ReplyOnEmptyStore

\* usar has ended on a malformed file
C22_Witness ==
    /\ command = "preset_cargos usar"
    /\ preset_file.kind = "malformed"
    /\ pc = "done"
    /\ Len(msgs) = 2

\* b is a, or a in upper case, or a in lower case (or the other way round)
CaseVariant(a, b) ==
    \/ b \in {a, PyUpper(a), PyLower(a)}
    \/ a \in {b, PyUpper(b), PyLower(b)}

\* the commands of the session that have saved a preset
Saves ==
    {j \in DOMAIN interactions :
        /\ interactions[j].command = "preset_cargos salvar"
        /\ ParseLista(interactions[j].lista_cargos) # <<>>
        /\ j = Len(interactions) => pc \in {"salvar_reply", "done"}}

\* the list a salvar command stored
SavedList(j) ==
    LET role_names == ParseLista(interactions[j].lista_cargos) IN
    [i \in DOMAIN role_names |-> DefaultRoleData(role_names[i])]

\* the last of a set of commands
Last(S) == CHOOSE j \in S : \A h \in S : h <= j

\* usar has looked its preset up
LookedUp ==
    /\ command = "preset_cargos usar"
    /\ pc \notin {"start", "body", "rejected"}

\* C23: once salvar has stored a preset under a name, usar with an
\* upper- or lower-case variant of that name finds the list stored last
\* under a variant of the name (a save under a variant replaces it), and
\* a preset nobody saved again is as it was.
C23_PresetNamesIgnoreCase ==
    preset_file.kind = "json" =>
        /\ LET same == {j \in Saves : CaseVariant(interactions[j].nome, nome)}
           IN  (LookedUp /\ same # {}) =>
                   role_data_list = SavedList(Last(same))
        /\ \A key \in DOMAIN preset_file.store :
              (\A j \in Saves : ~CaseVariant(interactions[j].nome, key)) =>
                  /\ key \in DOMAIN EditedStore
                  /\ preset_file.store[key] = EditedStore[key]

\* the position lists sent to the guild
ReorderCalls == {k \in DOMAIN calls : calls[k].op = "edit_role_positions"}

\* the ids of the roles the command created, in the order they were
\* listed (and created): the first is to be the highest
CreatedIds ==
    LET ok == SelectSeq(calls, LAMBDA c : c.op = "create_role"
                                          /\ c.res = "ok")
    IN  [i \in DOMAIN ok |-> ok[i].new]

\* the ids of the roles the guild had before the command
ExistingIds == [i \in DOMAIN GuildRoles |-> GuildRoles[i].id]

\* where id is in a list of ids
IndexOf(list, id) == CHOOSE i \in DOMAIN list : list[i] = id

\* C26: the list sent to edit_role_positions has the created roles right
\* below the bot's top role, contiguous and in the order given (the first
\* listed is the highest), and the roles the guild already had in the
\* order they were in.
C26_CreatedRolesBelowTopRole ==
    me_top_role # 0 =>
        \A k \in ReorderCalls :
            LET sent == calls[k].new
                top == IndexOf(sent, TopRole.id)
            IN  /\ \A i \in DOMAIN CreatedIds :
                      /\ top - i \in DOMAIN sent
                      /\ sent[top - i] = CreatedIds[i]
                /\ SelectSeq(sent, LAMBDA id : id <= Len(GuildRoles))
                      = ExistingIds

\* C27: when /criar_cargos has created a role it calls
\* edit_role_positions, and when the guild accepts the call the reply
\* announces the roles as created and ordered with no reordering failure.
C27_CriarCargosReorders ==
    (command = "criar_cargos" /\ pc = "done" /\ created_roles # <<>>) =>
        /\ ReorderCalls # {}
        /\ (\A k \in ReorderCalls : calls[k].res = "ok") =>
              /\ msgs[Len(msgs)].kind = "created_and_ordered"
              /\ ~msgs[Len(msgs)].item.attention
              /\ \A f \in DOMAIN failed_roles :
                    failed_roles[f].kind
                        \notin {"reorder_error", "reorder_forbidden"}

\* the two invocations of salvar
BothSalvar == <<LimpezaContext, suspended>>

\* the invocation is past save_presets
HasSaved(ctx) ==
    \/ ctx.pc = "salvar_reply"
    \/ /\ ctx.pc = "done"
       /\ ctx.msgs # <<>>
       /\ ctx.msgs[Len(ctx.msgs)].kind = "saved"

\* C30: of two salvar invocations with different names interleaved at
\* their awaits, none loses its update: from the moment an invocation has
\* saved, the store holds its preset, so that after both it holds both.
C30_NoLostPreset ==
    \A i \in 1..2 :
        HasSaved(BothSalvar[i]) =>
            /\ preset_file.kind = "json"
            /\ PyLower(BothSalvar[i].nome) \in DOMAIN preset_file.store
            /\ preset_file.store[PyLower(BothSalvar[i].nome)]
                  = BothSalvar[i].role_data_list

\* both invocations have saved and neither has replied yet: the second
\* loaded the store after the first had saved
C30_Witness ==
    /\ \A i \in 1..2 : BothSalvar[i].pc = "salvar_reply"
    /\ PyLower(nome) # PyLower(suspended.nome)
    /\ {PyLower(nome), PyLower(suspended.nome)}
          \subseteq DOMAIN preset_file.store

====
